---------------------------- MODULE Spec2Model ----------------------------
(***************************************************************************)
(* BinaryText: the six binary-to-text codecs (Base16, Base32, Base32Hex,   *)
(* Base64, Base64Url, Ascii85) and the ByteBuffer they work on.            *)
(*                                                                         *)
(* A character is its code (0..255); a string or a byte content is a       *)
(* sequence of codes, so the position i of a C++ iterator is the index     *)
(* i + 1 and cend() is Len(s) + 1.  A call's outcome is a record           *)
(* [err, out]: err is "none" or the name of the error thrown, out the      *)
(* value returned (empty when an error is thrown).                         *)
(***************************************************************************)
EXTENDS Integers, Sequences, FiniteSets, TLC

\* Longest byte sequence handed to an encoder.
MaxLen == 5

\* Longest encoded string handed to a decoder of the Base32 family.
MaxEnc32 == 9

\* Longest encoded string handed to a decoder of the Base64 family.
MaxEnc64 == 6

\* Longest encoded string handed to the Base16 decoder.
MaxEnc16 == 5

\* Longest encoded string handed to the Ascii85 decoder.
MaxEnc85 == 5

\* Size of the staging buffer of the ByteBuffer decoders and of a file chunk
\* (8192 in the source, scaled down).
ChunkSize == 2

\* ByteBuffer::GetMaximumSize() of the scaled-down platform of SpecBuf.
BufMaxSize == 3

\* PTRDIFF_MAX of a 32-bit build: ByteBuffer::GetMaximumSize() for the codecs.
PointerDiffMax == 2147483647

Space == 32

NewLine == 10

Equals == 61

Byte == 0 .. 255

IsSpace(c) == c = Space \/ c = NewLine

Ok(out) == [err |-> "none", out |-> out]

Throw(e) == [err |-> e, out |-> << >>]

Unset == [err |-> "unset", out |-> << >>]

\* The value a switch over symbols gives the character c, -1 on its default branch.
Lookup(table, c) ==
  IF \E i \in DOMAIN table : table[i][1] = c
  THEN table[CHOOSE i \in DOMAIN table : table[i][1] = c][2]
  ELSE -1

\* Base16::EncodeStringToString: the switch that maps a 4-bit value to its symbol (entry v+1 is the symbol of value v).
Base16UpperTable ==
  <<
    48, 49, 50, 51, 52, 53, 54, 55, 56, 57, 65, 66, 67, 68, 69, 70 >>

\* Base16::EncodeStringToString: the switch that maps a 4-bit value to its symbol (entry v+1 is the symbol of value v).
Base16LowerTable ==
  <<
    48, 49, 50, 51, 52, 53, 54, 55, 56, 57, 97, 98, 99, 100, 101, 102 >>

\* Base16::DecodeStringToString: the switch that maps a symbol to its value, as pairs <<symbol, value>>.
Base16MixedDecodeTable ==
  <<
    <<48, 0>>, <<49, 1>>, <<50, 2>>, <<51, 3>>, <<52, 4>>, <<53, 5>>, <<54, 6>>, <<55, 7>>,
    <<56, 8>>, <<57, 9>>, <<65, 10>>, <<66, 11>>, <<67, 12>>, <<68, 13>>, <<69, 14>>, <<70, 15>>,
    <<97, 10>>, <<98, 11>>, <<99, 12>>, <<100, 13>>, <<101, 14>>, <<102, 15>> >>

\* Base16::DecodeStringToString: the switch that maps a symbol to its value, as pairs <<symbol, value>>.
Base16UpperDecodeTable ==
  <<
    <<48, 0>>, <<49, 1>>, <<50, 2>>, <<51, 3>>, <<52, 4>>, <<53, 5>>, <<54, 6>>, <<55, 7>>,
    <<56, 8>>, <<57, 9>>, <<65, 10>>, <<66, 11>>, <<67, 12>>, <<68, 13>>, <<69, 14>>, <<70, 15>> >>

\* Base16::DecodeStringToString: the switch that maps a symbol to its value, as pairs <<symbol, value>>.
Base16LowerDecodeTable ==
  <<
    <<48, 0>>, <<49, 1>>, <<50, 2>>, <<51, 3>>, <<52, 4>>, <<53, 5>>, <<54, 6>>, <<55, 7>>,
    <<56, 8>>, <<57, 9>>, <<97, 10>>, <<98, 11>>, <<99, 12>>, <<100, 13>>, <<101, 14>>, <<102, 15>> >>

\* Base32::EncodeStringToString: the switch that maps a 5-bit value to its symbol (entry v+1 is the symbol of value v).
Base32EncodeTable ==
  <<
    65, 66, 67, 68, 69, 70, 71, 72, 73, 74, 75, 76, 77, 78, 79, 80,
    81, 82, 83, 84, 85, 86, 87, 88, 89, 90, 50, 51, 52, 53, 54, 55 >>

\* Base32::DecodeStringToString: the switch that maps a symbol to its value, as pairs <<symbol, value>>.
Base32DecodeTable ==
  <<
    <<65, 0>>, <<66, 1>>, <<67, 2>>, <<68, 3>>, <<69, 4>>, <<70, 5>>, <<71, 6>>, <<72, 7>>,
    <<73, 8>>, <<74, 9>>, <<75, 10>>, <<76, 11>>, <<77, 12>>, <<78, 13>>, <<79, 14>>, <<80, 15>>,
    <<81, 16>>, <<82, 17>>, <<83, 18>>, <<84, 19>>, <<85, 20>>, <<86, 21>>, <<87, 22>>, <<88, 23>>,
    <<89, 24>>, <<90, 25>>, <<50, 26>>, <<51, 27>>, <<52, 28>>, <<53, 29>>, <<54, 30>>, <<55, 31>> >>

\* Base32Hex::EncodeStringToString: the switch that maps a 5-bit value to its symbol (entry v+1 is the symbol of value v).
Base32HexEncodeTable ==
  <<
    48, 49, 50, 51, 52, 53, 54, 55, 56, 57, 65, 66, 67, 68, 69, 70,
    71, 72, 73, 74, 75, 76, 77, 78, 79, 80, 81, 82, 83, 84, 85, 86 >>

\* Base32Hex::DecodeStringToString: the switch that maps a symbol to its value, as pairs <<symbol, value>>.
Base32HexDecodeTable ==
  <<
    <<48, 0>>, <<49, 1>>, <<50, 2>>, <<51, 3>>, <<52, 4>>, <<53, 5>>, <<54, 6>>, <<55, 7>>,
    <<56, 8>>, <<57, 9>>, <<65, 10>>, <<66, 11>>, <<67, 12>>, <<68, 13>>, <<69, 14>>, <<70, 15>>,
    <<71, 16>>, <<72, 17>>, <<73, 18>>, <<74, 19>>, <<75, 20>>, <<76, 21>>, <<77, 22>>, <<78, 23>>,
    <<79, 24>>, <<80, 25>>, <<81, 26>>, <<82, 27>>, <<83, 28>>, <<84, 29>>, <<85, 30>>, <<86, 31>> >>

\* Base64::EncodeStringToString: the switch that maps a 6-bit value to its symbol (entry v+1 is the symbol of value v).
Base64EncodeTable ==
  <<
    65, 66, 67, 68, 69, 70, 71, 72, 73, 74, 75, 76, 77, 78, 79, 80,
    81, 82, 83, 84, 85, 86, 87, 88, 89, 90, 97, 98, 99, 100, 101, 102,
    103, 104, 105, 106, 107, 108, 109, 110, 111, 112, 113, 114, 115, 116, 117, 118,
    119, 120, 121, 122, 48, 49, 50, 51, 52, 53, 54, 55, 56, 57, 43, 47 >>

\* Base64::DecodeStringToString: the switch that maps a symbol to its value, as pairs <<symbol, value>>.
Base64DecodeTable ==
  <<
    <<65, 0>>, <<66, 1>>, <<67, 2>>, <<68, 3>>, <<69, 4>>, <<70, 5>>, <<71, 6>>, <<72, 7>>,
    <<73, 8>>, <<74, 9>>, <<75, 10>>, <<76, 11>>, <<77, 12>>, <<78, 13>>, <<79, 14>>, <<80, 15>>,
    <<81, 16>>, <<82, 17>>, <<83, 18>>, <<84, 19>>, <<85, 20>>, <<86, 21>>, <<87, 22>>, <<88, 23>>,
    <<89, 24>>, <<90, 25>>, <<97, 26>>, <<98, 27>>, <<99, 28>>, <<100, 29>>, <<101, 30>>, <<102, 31>>,
    <<103, 32>>, <<104, 33>>, <<105, 34>>, <<106, 35>>, <<107, 36>>, <<108, 37>>, <<109, 38>>, <<110, 39>>,
    <<111, 40>>, <<112, 41>>, <<113, 42>>, <<114, 43>>, <<115, 44>>, <<116, 45>>, <<117, 46>>, <<118, 47>>,
    <<119, 48>>, <<120, 49>>, <<121, 50>>, <<122, 51>>, <<48, 52>>, <<49, 53>>, <<50, 54>>, <<51, 55>>,
    <<52, 56>>, <<53, 57>>, <<54, 58>>, <<55, 59>>, <<56, 60>>, <<57, 61>>, <<43, 62>>, <<47, 63>> >>

\* Base64Url::EncodeStringToString: the switch that maps a 6-bit value to its symbol (entry v+1 is the symbol of value v).
Base64UrlEncodeTable ==
  <<
    65, 66, 67, 68, 69, 70, 71, 72, 73, 74, 75, 76, 77, 78, 79, 80,
    81, 82, 83, 84, 85, 86, 87, 88, 89, 90, 97, 98, 99, 100, 101, 102,
    103, 104, 105, 106, 107, 108, 109, 110, 111, 112, 113, 114, 115, 116, 117, 118,
    119, 120, 121, 122, 48, 49, 50, 51, 52, 53, 54, 55, 56, 57, 45, 95 >>

\* Base64Url::DecodeStringToString: the switch that maps a symbol to its value, as pairs <<symbol, value>>.
Base64UrlDecodeTable ==
  <<
    <<65, 0>>, <<66, 1>>, <<67, 2>>, <<68, 3>>, <<69, 4>>, <<70, 5>>, <<71, 6>>, <<72, 7>>,
    <<73, 8>>, <<74, 9>>, <<75, 10>>, <<76, 11>>, <<77, 12>>, <<78, 13>>, <<79, 14>>, <<80, 15>>,
    <<81, 16>>, <<82, 17>>, <<83, 18>>, <<84, 19>>, <<85, 20>>, <<86, 21>>, <<87, 22>>, <<88, 23>>,
    <<89, 24>>, <<90, 25>>, <<97, 26>>, <<98, 27>>, <<99, 28>>, <<100, 29>>, <<101, 30>>, <<102, 31>>,
    <<103, 32>>, <<104, 33>>, <<105, 34>>, <<106, 35>>, <<107, 36>>, <<108, 37>>, <<109, 38>>, <<110, 39>>,
    <<111, 40>>, <<112, 41>>, <<113, 42>>, <<114, 43>>, <<115, 44>>, <<116, 45>>, <<117, 46>>, <<118, 47>>,
    <<119, 48>>, <<120, 49>>, <<121, 50>>, <<122, 51>>, <<48, 52>>, <<49, 53>>, <<50, 54>>, <<51, 55>>,
    <<52, 56>>, <<53, 57>>, <<54, 58>>, <<55, 59>>, <<56, 60>>, <<57, 61>>, <<45, 62>>, <<95, 63>> >>

(***************************************************************************)
(* Base16                                                                  *)
(***************************************************************************)

Base16UpperDecodeMap == [c \in Byte |-> Lookup(Base16UpperDecodeTable, c)]

Base16LowerDecodeMap == [c \in Byte |-> Lookup(Base16LowerDecodeTable, c)]

Base16MixedDecodeMap == [c \in Byte |-> Lookup(Base16MixedDecodeTable, c)]

\* An encoding of a byte that keeps the high digit only.
HighDigitOnly(byte, case_) ==
  << (IF case_ = "UPPERCASE" THEN Base16UpperTable ELSE Base16LowerTable)[(byte \div 16) + 1] >>

\* The two symbols of one byte: the high half (bitset >> 4), then the low half.
Base16_EncodeByte(byte, case_) ==
  LET table == IF case_ = "UPPERCASE" THEN Base16UpperTable ELSE Base16LowerTable
  IN  << table[(byte \div 16) + 1], table[(byte % 16) + 1] >>

\* The encode loop from byte i on; Case::MIXED throws inside the loop.
RECURSIVE Base16_EncodeFrom(_, _, _, _)
Base16_EncodeFrom(s, case_, i, acc) ==
  IF i > Len(s) THEN Ok(acc)
  ELSE IF case_ \notin {"UPPERCASE", "LOWERCASE"} THEN Throw("INVALID_CASE_ERROR")
  ELSE Base16_EncodeFrom(s, case_, i + 1, acc \o Base16_EncodeByte(s[i], case_))

Base16_EncodeStringToString(string_, case_) == Base16_EncodeFrom(string_, case_, 1, << >>)

Base16_EncodeByteBufferToString(byteBuffer_, case_) ==
  Base16_EncodeFrom(byteBuffer_, case_, 1, << >>)

\* The value of a digit under the decoder's case, -1 when the switch throws.
Base16_DigitValue(c, case_) ==
  CASE case_ = "MIXED" -> Base16MixedDecodeMap[c]
    [] case_ = "UPPERCASE" -> Base16UpperDecodeMap[c]
    [] case_ = "LOWERCASE" -> Base16LowerDecodeMap[c]

\* The inner loop over jter: collects up to two digits into bitset, moving iter
\* past every white-space character that is not the last character.
RECURSIVE Base16_DecodeGroup(_, _, _, _, _, _)
Base16_DecodeGroup(s, case_, iter, jter, counter, bitset) ==
  LET end == Len(s) + 1
      stop == [err |-> "none", iter |-> iter, counter |-> counter, bitset |-> bitset]
  IN  IF jter = end THEN stop
      ELSE IF IsSpace(s[jter])
      THEN IF jter + 1 = end THEN stop
           ELSE Base16_DecodeGroup(s, case_, iter + 1, jter + 1, counter, bitset)
      ELSE LET v == Base16_DigitValue(s[jter], case_)
               shifted == ((bitset * 16) % 256) + v
           IN  IF v < 0
               THEN [err |-> "STRING_PARSE_ERROR", iter |-> iter, counter |-> counter,
                     bitset |-> bitset]
               ELSE IF jter + 1 = end \/ jter + 1 = iter + 2
               THEN [err |-> "none", iter |-> jter, counter |-> counter + 1,
                     bitset |-> shifted]
               ELSE Base16_DecodeGroup(s, case_, iter, jter + 1, counter + 1, shifted)

\* A group byte that leaves a single digit in the low half.
DigitAsLowHalf(counter, bitset) == bitset

\* switch(counter) after the inner loop: a group of one digit is shifted left
\* by four bits.
Base16_GroupByte(counter, bitset) ==
  IF counter = 2 THEN bitset ELSE (bitset * 16) % 256

\* The outer loop over iter; a single trailing digit is the high half of a byte.
RECURSIVE Base16_DecodeFrom(_, _, _, _)
Base16_DecodeFrom(s, case_, iter, acc) ==
  IF iter > Len(s) THEN Ok(acc)
  ELSE IF IsSpace(s[iter]) THEN Base16_DecodeFrom(s, case_, iter + 1, acc)
  ELSE LET g == Base16_DecodeGroup(s, case_, iter, iter, 0, 0)
           byte == Base16_GroupByte(g.counter, g.bitset)
       IN  IF g.err # "none" THEN Throw(g.err)
           ELSE Base16_DecodeFrom(s, case_, g.iter + 1, Append(acc, byte))

Base16_DecodeStringToString(encodedString_, case_) ==
  Base16_DecodeFrom(encodedString_, case_, 1, << >>)

(***************************************************************************)
(* ByteBuffer.  A buffer is [size, alloc, data]: _size, whether _buffer is *)
(* non-null, and the bytes _buffer points to.  The outcome of a member     *)
(* function is [buf, err].  max is GetMaximumSize(); fail says which       *)
(* allocation of the call throws std::bad_alloc (0 or FALSE: none).        *)
(***************************************************************************)

EmptyBuffer == [size |-> 0, alloc |-> FALSE, data |-> << >>]

Filled(n, byte) == [i \in 1 .. n |-> byte]

Min(x, y) == IF x < y THEN x ELSE y

\* x + y in SizeType, an unsigned type of twice the range of DifferenceType.
SizeAdd(x, y, max) ==
  IF (x + y) - max - 1 > max THEN (x + y) - max - max - 2 ELSE x + y

Done(buf) == [buf |-> buf, err |-> "none"]

Failed(buf, e) == [buf |-> buf, err |-> e]

\* explicit ByteBuffer(const SizeType size_)
ByteBuffer_Sized(size_, max, fail) ==
  IF size_ > max THEN Failed(EmptyBuffer, "MAXIMUM_SIZE_LIMIT_ERROR")
  ELSE IF size_ > 0
  THEN IF fail THEN Failed(EmptyBuffer, "ALLOCATION_ERROR")
       ELSE Done([size |-> size_, alloc |-> TRUE, data |-> Filled(size_, 0)])
  ELSE Done(EmptyBuffer)

\* explicit ByteBuffer(const std::vector<ValueType>& vector_)
ByteBuffer_FromVector(vector_, max, fail) ==
  IF Len(vector_) > max THEN Failed(EmptyBuffer, "MAXIMUM_SIZE_LIMIT_ERROR")
  ELSE IF Len(vector_) > 0
  THEN IF fail THEN Failed(EmptyBuffer, "ALLOCATION_ERROR")
       ELSE Done([size |-> Len(vector_), alloc |-> TRUE, data |-> vector_])
  ELSE Done(EmptyBuffer)

\* ByteBuffer(const ByteBuffer& byteBuffer_)
ByteBuffer_Copy(byteBuffer_, fail) ==
  IF byteBuffer_.alloc
  THEN IF fail THEN Failed(EmptyBuffer, "ALLOCATION_ERROR")
       ELSE Done([size |-> byteBuffer_.size, alloc |-> TRUE, data |-> byteBuffer_.data])
  ELSE Done(EmptyBuffer)

\* SetAllBytes(byte_): std::fill over the storage, nothing on a null pointer.
ByteBuffer_SetAllBytes(this, byte_) ==
  IF this.alloc THEN Done([this EXCEPT !.data = Filled(this.size, byte_)])
  ELSE Done(this)

\* At(position_) = byte_ (positions count from 0).
ByteBuffer_SetAt(this, position_, byte_) ==
  IF position_ < this.size /\ this.alloc
  THEN Done([this EXCEPT !.data[position_ + 1] = byte_])
  ELSE Failed(this, "OUT_OF_RANGE_ERROR")

\* Resize(size_, byte_).  fail = 1: the copy of the previous content cannot be
\* allocated; fail = 2: the new storage cannot.  The previous content is read
\* through _buffer whatever the pointer is.
ByteBuffer_ResizeByte(this, size_, byte_, max, fail) ==
  IF size_ > max THEN Failed(this, "MAXIMUM_SIZE_LIMIT_ERROR")
  ELSE IF size_ = this.size THEN Done(this)
  ELSE IF size_ < 1 THEN Done(EmptyBuffer)
  ELSE IF fail \in {1, 2} THEN Failed(EmptyBuffer, "ALLOCATION_ERROR")
  ELSE LET previousSize == this.size
           previousBuffer == SubSeq(this.data, 1, previousSize)
       IN  IF size_ < previousSize
           THEN Done([size |-> size_, alloc |-> TRUE,
                      data |-> SubSeq(previousBuffer, 1, size_)])
           ELSE Done([size |-> size_, alloc |-> TRUE,
                      data |-> previousBuffer \o Filled(size_ - previousSize, byte_)])

\* Resize(size_): the same steps, the new bytes are 0.
ByteBuffer_Resize(this, size_, max, fail) ==
  ByteBuffer_ResizeByte(this, size_, 0, max, fail)

\* operator=(const ByteBuffer&); self says that the argument is *this.
ByteBuffer_CopyAssign(this, byteBuffer_, self, fail) ==
  IF self THEN Done(this)
  ELSE IF byteBuffer_.alloc
  THEN IF fail THEN Failed(EmptyBuffer, "ALLOCATION_ERROR")
       ELSE Done([size |-> byteBuffer_.size, alloc |-> TRUE, data |-> byteBuffer_.data])
  ELSE Done(EmptyBuffer)

\* operator+= that empties *this before it raises the size-limit error.
PlusAssignResetting(this, byteBuffer_, max, fail) ==
  IF this.alloc
  THEN IF byteBuffer_.alloc
       THEN LET nextSize == SizeAdd(this.size, byteBuffer_.size, max)
            IN  IF nextSize > max \/ nextSize < this.size
                THEN Failed(EmptyBuffer, "MAXIMUM_SIZE_LIMIT_ERROR")
                ELSE IF fail THEN Failed(EmptyBuffer, "ALLOCATION_ERROR")
                ELSE Done([size |-> nextSize, alloc |-> TRUE,
                           data |-> this.data \o byteBuffer_.data])
       ELSE Done(this)
  ELSE IF byteBuffer_.alloc /\ ~fail
       THEN Done([size |-> byteBuffer_.size, alloc |-> TRUE, data |-> byteBuffer_.data])
       ELSE Done(this)

\* operator+=(const ByteBuffer&).  Only the branch of two non-empty buffers
\* catches std::bad_alloc; the branch of an empty *this has set _size already
\* when make_unique throws.
ByteBuffer_PlusAssign(this, byteBuffer_, max, fail) ==
  IF this.alloc
  THEN IF byteBuffer_.alloc
       THEN LET nextSize == SizeAdd(this.size, byteBuffer_.size, max)
            IN  IF nextSize > max THEN Failed(this, "MAXIMUM_SIZE_LIMIT_ERROR")
                ELSE IF nextSize < this.size THEN Failed(this, "MAXIMUM_SIZE_LIMIT_ERROR")
                ELSE IF fail THEN Failed(EmptyBuffer, "ALLOCATION_ERROR")
                ELSE Done([size |-> nextSize, alloc |-> TRUE,
                           data |-> this.data \o byteBuffer_.data])
       ELSE Done(this)
  ELSE IF byteBuffer_.alloc
       THEN IF fail
            THEN Failed([size |-> byteBuffer_.size, alloc |-> FALSE, data |-> << >>],
                        "std::bad_alloc")
            ELSE Done([size |-> byteBuffer_.size, alloc |-> TRUE,
                       data |-> byteBuffer_.data])
       ELSE Done(this)

\* operator==(const ByteBuffer&)
ByteBuffer_Equals(this, byteBuffer_) ==
  IF this.size = byteBuffer_.size
  THEN IF ~this.alloc THEN ~byteBuffer_.alloc
       ELSE IF ~byteBuffer_.alloc THEN FALSE
       ELSE \A i \in 1 .. this.size : this.data[i] = byteBuffer_.data[i]
  ELSE FALSE

(***************************************************************************)
(* The staging of the ByteBuffer decoders: decoded bytes go to a buffer of *)
(* ChunkSize bytes that is appended to the result each time it is full.    *)
(***************************************************************************)

StagingStart ==
  [decodedByteBuffer |-> EmptyBuffer,
   byteBuffer |-> ByteBuffer_Sized(ChunkSize, PointerDiffMax, FALSE).buf,
   bufferIterator |-> 0]

\* A staging step that throws the full chunk away instead of appending it.
AddDroppingChunk(st, byte_) ==
  IF st.bufferIterator < ChunkSize
  THEN [st EXCEPT !.byteBuffer = ByteBuffer_SetAt(@, st.bufferIterator, byte_).buf,
                  !.bufferIterator = @ + 1]
  ELSE [decodedByteBuffer |-> st.decodedByteBuffer,
        byteBuffer |-> ByteBuffer_SetAt(st.byteBuffer, 0, byte_).buf,
        bufferIterator |-> 1]

\* addToByteBuffer(byte_)
AddToByteBuffer(st, byte_) ==
  IF st.bufferIterator < ChunkSize
  THEN [st EXCEPT !.byteBuffer = ByteBuffer_SetAt(@, st.bufferIterator, byte_).buf,
                  !.bufferIterator = @ + 1]
  ELSE [decodedByteBuffer |->
          ByteBuffer_PlusAssign(st.decodedByteBuffer, st.byteBuffer, PointerDiffMax, FALSE).buf,
        byteBuffer |-> ByteBuffer_SetAt(st.byteBuffer, 0, byte_).buf,
        bufferIterator |-> 1]

\* The end of a ByteBuffer decoder: what is left in the staging buffer is appended.
FlushByteBuffer(st) ==
  IF st.bufferIterator > 0
  THEN ByteBuffer_PlusAssign(st.decodedByteBuffer,
         ByteBuffer_Resize(st.byteBuffer, st.bufferIterator, PointerDiffMax, 0).buf,
         PointerDiffMax, FALSE).buf
  ELSE st.decodedByteBuffer

\* The ByteBuffer a decoder returns after it has added the bytes of out in order.
RECURSIVE StageAll(_, _, _)
StageAll(out, i, st) ==
  IF i > Len(out) THEN FlushByteBuffer(st)
  ELSE StageAll(out, i + 1, AddToByteBuffer(st, out[i]))

ToByteBuffer(r) ==
  IF r.err = "none" THEN Ok(StageAll(r.out, 1, StagingStart).data) ELSE r

Base16_DecodeStringToByteBuffer(encodedString_, case_) ==
  ToByteBuffer(Base16_DecodeFrom(encodedString_, case_, 1, << >>))

(***************************************************************************)
(* std::bitset<N>: a sequence of N bits, the most significant first.       *)
(***************************************************************************)

Zeros(n) == [i \in 1 .. n |-> 0]

\* std::bitset<w>(v): the low w bits of v.
BitsOf(v, w) == [i \in 1 .. w |-> (v \div (2 ^ (w - i))) % 2]

\* bitset <<= n
ShiftLeft(bits, n) ==
  IF n >= Len(bits) THEN Zeros(Len(bits))
  ELSE SubSeq(bits, n + 1, Len(bits)) \o Zeros(n)

\* bitset |= std::bitset<N>(v), for a value v of at most w bits
OrValue(bits, v, w) ==
  LET value == BitsOf(v, w)
      high == Len(bits) - w
  IN  [i \in 1 .. Len(bits) |->
         IF i > high /\ value[i - high] = 1 THEN 1 ELSE bits[i]]

\* The low w bits of (bitset >> shift).to_ullong().
RECURSIVE Field(_, _, _)
Field(bits, shift, w) ==
  IF w = 0 THEN 0
  ELSE (IF shift < Len(bits) THEN bits[Len(bits) - shift] ELSE 0)
       + 2 * Field(bits, shift + 1, w - 1)

(***************************************************************************)
(* Base32 and Base32Hex: the same code over two alphabets.                 *)
(***************************************************************************)

Base32DecodeMap == [c \in Byte |-> Lookup(Base32DecodeTable, c)]

Base32HexDecodeMap == [c \in Byte |-> Lookup(Base32HexDecodeTable, c)]

\* The inner loop over jter: up to 5 bytes into a bitset<40>.
RECURSIVE Base32_EncodeCollect(_, _, _, _, _)
Base32_EncodeCollect(s, iter, jter, counter, bitset) ==
  IF jter = Len(s) + 1 THEN [iter |-> iter, counter |-> counter, bitset |-> bitset]
  ELSE LET next == OrValue(ShiftLeft(bitset, 8), s[jter], 8)
       IN  IF jter + 1 = Len(s) + 1 \/ jter + 1 = iter + 5
           THEN [iter |-> jter, counter |-> counter + 1, bitset |-> next]
           ELSE Base32_EncodeCollect(s, iter, jter + 1, counter + 1, next)

\* A group count that forgets the ragged final group.
FullGroupSymbols(counter) == 8

\* switch(counter): the number of symbols of a group of counter bytes.
Base32_SymbolCount(counter) ==
  CASE counter = 5 -> 8
    [] counter = 4 -> 7
    [] counter = 3 -> 5
    [] counter = 2 -> 4
    [] counter = 1 -> 2

\* The loop over i = 1 .. 8 that writes the symbols and the padding of a group.
RECURSIVE Base32_EncodeEmit(_, _, _, _, _, _)
Base32_EncodeEmit(bitset, counter, withPadding_, table, i, acc) ==
  IF i >= 9 THEN acc
  ELSE IF i > counter
  THEN IF withPadding_
       THEN Base32_EncodeEmit(bitset, counter, withPadding_, table, i + 1,
                              Append(acc, Equals))
       ELSE acc
  ELSE Base32_EncodeEmit(bitset, counter, withPadding_, table, i + 1,
                         Append(acc, table[Field(bitset, 40 - 5 * i, 5) + 1]))

\* The outer loop over iter.
RECURSIVE Base32_EncodeFrom(_, _, _, _, _)
Base32_EncodeFrom(s, withPadding_, table, iter, acc) ==
  IF iter > Len(s) THEN Ok(acc)
  ELSE LET g == Base32_EncodeCollect(s, iter, iter, 0, Zeros(40))
           bitset == ShiftLeft(g.bitset, 8 * (5 - g.counter))
       IN  Base32_EncodeFrom(s, withPadding_, table, g.iter + 1,
             Base32_EncodeEmit(bitset, Base32_SymbolCount(g.counter), withPadding_,
                               table, 1, acc))

Base32_EncodeStringToString(string_, withPadding_) ==
  Base32_EncodeFrom(string_, withPadding_, Base32EncodeTable, 1, << >>)

Base32_EncodeByteBufferToString(byteBuffer_, withPadding_) ==
  Base32_EncodeFrom(byteBuffer_, withPadding_, Base32EncodeTable, 1, << >>)

Base32Hex_EncodeStringToString(string_, withPadding_) ==
  Base32_EncodeFrom(string_, withPadding_, Base32HexEncodeTable, 1, << >>)

Base32Hex_EncodeByteBufferToString(byteBuffer_, withPadding_) ==
  Base32_EncodeFrom(byteBuffer_, withPadding_, Base32HexEncodeTable, 1, << >>)

\* The inner loop over jter: up to 8 characters into a bitset<40>, counting the
\* '=' and refusing any other character once a '=' has been counted.
RECURSIVE Base32_DecodeCollect(_, _, _, _, _, _, _)
Base32_DecodeCollect(s, map, iter, jter, loopCounter, paddingCounter, bitset) ==
  LET stop(e, it, lc, pc, bs) ==
        [err |-> e, iter |-> it, loopCounter |-> lc, paddingCounter |-> pc,
         bitset |-> bs]
  IN  IF jter = Len(s) + 1 THEN stop("none", iter, loopCounter, paddingCounter, bitset)
      ELSE LET c == s[jter]
               shifted == ShiftLeft(bitset, 5)
               pc == IF c = Equals THEN paddingCounter + 1 ELSE paddingCounter
               bs == IF c = Equals THEN shifted ELSE OrValue(shifted, map[c], 5)
           IN  IF paddingCounter > 0 /\ c # Equals
               THEN stop("STRING_PARSE_ERROR", iter, loopCounter, paddingCounter, bitset)
               ELSE IF c # Equals /\ map[c] < 0
               THEN stop("STRING_PARSE_ERROR", iter, loopCounter, paddingCounter, bitset)
               ELSE IF jter + 1 = Len(s) + 1 \/ jter + 1 = iter + 8
               THEN stop("none", jter, loopCounter + 1, pc, bs)
               ELSE Base32_DecodeCollect(s, map, iter, jter + 1, loopCounter + 1, pc, bs)

\* A padding count that forgets the characters a short group lacks.
PaddingAsCounted(loopCounter, paddingCounter) == paddingCounter

\* A padding count that refuses every group of fewer than 8 characters.
PaddingOfFullGroup(loopCounter, paddingCounter) ==
  IF loopCounter = 8 THEN paddingCounter ELSE -1

\* switch(loopCounter): the padding counter a group of loopCounter characters
\* is decoded with, -1 where the switch throws.
Base32_PaddingOf(loopCounter, paddingCounter) ==
  CASE loopCounter = 8 -> paddingCounter
    [] loopCounter = 7 ->
         (CASE paddingCounter = 5 -> 6 [] paddingCounter = 3 -> 4
            [] paddingCounter = 2 -> 3 [] paddingCounter = 0 -> 1 [] OTHER -> -1)
    [] loopCounter = 6 ->
         (CASE paddingCounter = 4 -> 6 [] paddingCounter = 2 -> 4
            [] paddingCounter = 1 -> 3 [] OTHER -> -1)
    [] loopCounter = 5 ->
         (CASE paddingCounter = 3 -> 6 [] paddingCounter = 1 -> 4
            [] paddingCounter = 0 -> 3 [] OTHER -> -1)
    [] loopCounter = 4 ->
         (CASE paddingCounter = 2 -> 6 [] paddingCounter = 0 -> 4 [] OTHER -> -1)
    [] loopCounter = 3 -> (CASE paddingCounter = 1 -> 6 [] OTHER -> -1)
    [] loopCounter = 2 -> (CASE paddingCounter = 0 -> 6 [] OTHER -> -1)
    [] OTHER -> -1

\* switch(paddingCounter): the number of bytes a group gives, -1 where it throws.
Base32_ByteCount(paddingCounter) ==
  CASE paddingCounter = 0 -> 5
    [] paddingCounter = 1 -> 4
    [] paddingCounter = 3 -> 3
    [] paddingCounter = 4 -> 2
    [] paddingCounter = 6 -> 1
    [] OTHER -> -1

\* The first n bytes of a bitset<40>: (bitset >> 32), (bitset >> 24), ...
Base32_Bytes(bitset, n) == [k \in 1 .. n |-> Field(bitset, 8 * (5 - k), 8)]

\* The outer loop over iter; it ends after the first group that has padding.
RECURSIVE Base32_DecodeFrom(_, _, _, _)
Base32_DecodeFrom(s, map, iter, acc) ==
  IF iter > Len(s) THEN Ok(acc)
  ELSE LET g == Base32_DecodeCollect(s, map, iter, iter, 0, 0, Zeros(40))
           paddingCounter == Base32_PaddingOf(g.loopCounter, g.paddingCounter)
           bitset == ShiftLeft(g.bitset, 5 * (8 - g.loopCounter))
           n == Base32_ByteCount(paddingCounter)
       IN  IF g.err # "none" THEN Throw(g.err)
           ELSE IF paddingCounter < 0 \/ n < 0 THEN Throw("STRING_PARSE_ERROR")
           ELSE IF paddingCounter > 0 THEN Ok(acc \o Base32_Bytes(bitset, n))
           ELSE Base32_DecodeFrom(s, map, g.iter + 1, acc \o Base32_Bytes(bitset, n))

Base32_DecodeStringToString(encodedString_) ==
  Base32_DecodeFrom(encodedString_, Base32DecodeMap, 1, << >>)

Base32_DecodeStringToByteBuffer(encodedString_) ==
  ToByteBuffer(Base32_DecodeFrom(encodedString_, Base32DecodeMap, 1, << >>))

Base32Hex_DecodeStringToString(encodedString_) ==
  Base32_DecodeFrom(encodedString_, Base32HexDecodeMap, 1, << >>)

Base32Hex_DecodeStringToByteBuffer(encodedString_) ==
  ToByteBuffer(Base32_DecodeFrom(encodedString_, Base32HexDecodeMap, 1, << >>))

(***************************************************************************)
(* Base64 and Base64Url: the same code over two alphabets.                 *)
(***************************************************************************)

Base64DecodeMap == [c \in Byte |-> Lookup(Base64DecodeTable, c)]

Base64UrlDecodeMap == [c \in Byte |-> Lookup(Base64UrlDecodeTable, c)]

\* The inner loop over jter: up to 3 bytes into a bitset<24>.
RECURSIVE Base64_EncodeCollect(_, _, _, _, _)
Base64_EncodeCollect(s, iter, jter, counter, bitset) ==
  IF jter = Len(s) + 1 THEN [iter |-> iter, counter |-> counter, bitset |-> bitset]
  ELSE LET next == OrValue(ShiftLeft(bitset, 8), s[jter], 8)
       IN  IF jter + 1 = Len(s) + 1 \/ jter + 1 = iter + 3
           THEN [iter |-> jter, counter |-> counter + 1, bitset |-> next]
           ELSE Base64_EncodeCollect(s, iter, jter + 1, counter + 1, next)

\* A symbol count that takes every group for a full group of 3 bytes.
FullGroupSymbols64(counter) == 4

\* switch(counter): the number of symbols of a group of counter bytes.
Base64_SymbolCount(counter) ==
  CASE counter = 3 -> 4
    [] counter = 2 -> 3
    [] counter = 1 -> 2

\* The loop over i = 1 .. 4 that writes the symbols and the padding of a group.
RECURSIVE Base64_EncodeEmit(_, _, _, _, _, _)
Base64_EncodeEmit(bitset, counter, withPadding_, table, i, acc) ==
  IF i >= 5 THEN acc
  ELSE IF i > counter
  THEN IF withPadding_
       THEN Base64_EncodeEmit(bitset, counter, withPadding_, table, i + 1,
                              Append(acc, Equals))
       ELSE acc
  ELSE Base64_EncodeEmit(bitset, counter, withPadding_, table, i + 1,
                         Append(acc, table[Field(bitset, 24 - 6 * i, 6) + 1]))

\* The outer loop over iter.
RECURSIVE Base64_EncodeFrom(_, _, _, _, _)
Base64_EncodeFrom(s, withPadding_, table, iter, acc) ==
  IF iter > Len(s) THEN Ok(acc)
  ELSE LET g == Base64_EncodeCollect(s, iter, iter, 0, Zeros(24))
           bitset == ShiftLeft(g.bitset, 8 * (3 - g.counter))
       IN  Base64_EncodeFrom(s, withPadding_, table, g.iter + 1,
             Base64_EncodeEmit(bitset, Base64_SymbolCount(g.counter), withPadding_,
                               table, 1, acc))

Base64_EncodeStringToString(string_, withPadding_) ==
  Base64_EncodeFrom(string_, withPadding_, Base64EncodeTable, 1, << >>)

Base64_EncodeByteBufferToString(byteBuffer_, withPadding_) ==
  Base64_EncodeFrom(byteBuffer_, withPadding_, Base64EncodeTable, 1, << >>)

Base64Url_EncodeStringToString(string_, withPadding_) ==
  Base64_EncodeFrom(string_, withPadding_, Base64UrlEncodeTable, 1, << >>)

Base64Url_EncodeByteBufferToString(byteBuffer_, withPadding_) ==
  Base64_EncodeFrom(byteBuffer_, withPadding_, Base64UrlEncodeTable, 1, << >>)

\* The inner loop over jter: up to 4 characters into a bitset<24>, counting the
\* '=' and refusing any other character once a '=' has been counted.
RECURSIVE Base64_DecodeCollect(_, _, _, _, _, _, _)
Base64_DecodeCollect(s, map, iter, jter, loopCounter, paddingCounter, bitset) ==
  LET stop(e, it, lc, pc, bs) ==
        [err |-> e, iter |-> it, loopCounter |-> lc, paddingCounter |-> pc,
         bitset |-> bs]
  IN  IF jter = Len(s) + 1 THEN stop("none", iter, loopCounter, paddingCounter, bitset)
      ELSE LET c == s[jter]
               shifted == ShiftLeft(bitset, 6)
               pc == IF c = Equals THEN paddingCounter + 1 ELSE paddingCounter
               bs == IF c = Equals THEN shifted ELSE OrValue(shifted, map[c], 6)
           IN  IF paddingCounter > 0 /\ c # Equals
               THEN stop("STRING_PARSE_ERROR", iter, loopCounter, paddingCounter, bitset)
               ELSE IF c # Equals /\ map[c] < 0
               THEN stop("STRING_PARSE_ERROR", iter, loopCounter, paddingCounter, bitset)
               ELSE IF jter + 1 = Len(s) + 1 \/ jter + 1 = iter + 4
               THEN stop("none", jter, loopCounter + 1, pc, bs)
               ELSE Base64_DecodeCollect(s, map, iter, jter + 1, loopCounter + 1, pc, bs)

\* switch(loopCounter): the padding counter a group of loopCounter characters
\* is decoded with, -1 where the switch throws.
Base64_PaddingOf(loopCounter, paddingCounter) ==
  CASE loopCounter = 4 -> paddingCounter
    [] loopCounter = 3 ->
         (CASE paddingCounter = 1 -> 2 [] paddingCounter = 0 -> 1 [] OTHER -> -1)
    [] loopCounter = 2 -> (CASE paddingCounter = 0 -> 2 [] OTHER -> -1)
    [] OTHER -> -1

\* switch(paddingCounter): the number of bytes a group gives, -1 where it throws.
Base64_ByteCount(paddingCounter) ==
  CASE paddingCounter = 0 -> 3
    [] paddingCounter = 1 -> 2
    [] paddingCounter = 2 -> 1
    [] OTHER -> -1

\* The first n bytes of a bitset<24>: (bitset >> 16), (bitset >> 8), bitset.
Base64_Bytes(bitset, n) == [k \in 1 .. n |-> Field(bitset, 8 * (3 - k), 8)]

\* The outer loop over iter; it ends after the first group that has padding.
RECURSIVE Base64_DecodeFrom(_, _, _, _)
Base64_DecodeFrom(s, map, iter, acc) ==
  IF iter > Len(s) THEN Ok(acc)
  ELSE LET g == Base64_DecodeCollect(s, map, iter, iter, 0, 0, Zeros(24))
           paddingCounter == Base64_PaddingOf(g.loopCounter, g.paddingCounter)
           bitset == ShiftLeft(g.bitset, 6 * (4 - g.loopCounter))
           n == Base64_ByteCount(paddingCounter)
       IN  IF g.err # "none" THEN Throw(g.err)
           ELSE IF paddingCounter < 0 \/ n < 0 THEN Throw("STRING_PARSE_ERROR")
           ELSE IF paddingCounter > 0 THEN Ok(acc \o Base64_Bytes(bitset, n))
           ELSE Base64_DecodeFrom(s, map, g.iter + 1, acc \o Base64_Bytes(bitset, n))

Base64_DecodeStringToString(encodedString_) ==
  Base64_DecodeFrom(encodedString_, Base64DecodeMap, 1, << >>)

Base64_DecodeStringToByteBuffer(encodedString_) ==
  ToByteBuffer(Base64_DecodeFrom(encodedString_, Base64DecodeMap, 1, << >>))

Base64Url_DecodeStringToString(encodedString_) ==
  Base64_DecodeFrom(encodedString_, Base64UrlDecodeMap, 1, << >>)

Base64Url_DecodeStringToByteBuffer(encodedString_) ==
  ToByteBuffer(Base64_DecodeFrom(encodedString_, Base64UrlDecodeMap, 1, << >>))

(***************************************************************************)
(* Ascii85.  An unsigned long long is [hi, lo], its value hi * 65536 + lo. *)
(***************************************************************************)

Limb == 2 ^ 16

LessThan == 60

GreaterThan == 62

Tilde == 126

LetterY == 121

LetterZ == 122

FirstDigit == 33

LastDigit == 117

\* 85^0 .. 85^4
Pow85 == << 1, 85, 85 * 85, 85 * 85 * 85, 85 * 85 * 85 * 85 >>

Wide(hi, lo) == [hi |-> hi, lo |-> lo]

\* bitsetNumber += d * 85^p
WideAddMul(n, d, p) ==
  LET lo == n.lo + d * (Pow85[p + 1] % Limb)
  IN  Wide(n.hi + d * (Pow85[p + 1] \div Limb) + (lo \div Limb), lo % Limb)

\* bitsetNumber % 85 and floor(bitsetNumber / 85)
WideDivMod85(n) ==
  LET cur == (n.hi % 85) * Limb + n.lo
  IN  [q |-> Wide(n.hi \div 85, cur \div 85), r |-> cur % 85]

\* The five codes of a number, the least significant first.
RECURSIVE Ascii85_Codes(_, _)
Ascii85_Codes(n, k) ==
  IF k = 0 THEN << >>
  ELSE << WideDivMod85(n).r >> \o Ascii85_Codes(WideDivMod85(n).q, k - 1)

Reverse(s) == [i \in 1 .. Len(s) |-> s[Len(s) + 1 - i]]

\* The inner loop over jter: up to 4 bytes into a bitset<32>.
RECURSIVE Ascii85_EncodeCollect(_, _, _, _, _)
Ascii85_EncodeCollect(s, iter, jter, counter, bitset) ==
  IF jter = Len(s) + 1 THEN [iter |-> iter, counter |-> counter, bitset |-> bitset]
  ELSE LET next == OrValue(ShiftLeft(bitset, 8), s[jter], 8)
       IN  IF jter + 1 = Len(s) + 1 \/ jter + 1 = iter + 4
           THEN [iter |-> jter, counter |-> counter + 1, bitset |-> next]
           ELSE Ascii85_EncodeCollect(s, iter, jter + 1, counter + 1, next)

\* What one group appends: 'z' for a bitset of zeros, 'y' for four spaces when
\* spaces are folded, else five digits less the 4 - counter last ones
\* (counter is 0 for a group of four bytes).
Ascii85_EncodeGroup(bitset, counter, foldSpaces_) ==
  IF bitset = Zeros(32) THEN << LetterZ >>
  ELSE IF bitset = BitsOf(Space, 8) \o BitsOf(Space, 8) \o BitsOf(Space, 8)
                   \o BitsOf(Space, 8) /\ foldSpaces_
  THEN << LetterY >>
  ELSE LET codes == Ascii85_Codes(Wide(Field(bitset, 16, 16), Field(bitset, 0, 16)), 5)
           digits == [i \in 1 .. 5 |-> Reverse(codes)[i] + FirstDigit]
       IN  IF 4 - counter # 4 THEN SubSeq(digits, 1, 5 - (4 - counter)) ELSE digits

\* The outer loop over iter.
RECURSIVE Ascii85_EncodeFrom(_, _, _, _)
Ascii85_EncodeFrom(s, foldSpaces_, iter, acc) ==
  IF iter > Len(s) THEN acc
  ELSE LET g == Ascii85_EncodeCollect(s, iter, iter, 0, Zeros(32))
           counter == IF g.counter = 4 THEN 0 ELSE g.counter
           bitset == IF g.counter = 4 THEN g.bitset
                     ELSE ShiftLeft(g.bitset, 8 * (4 - g.counter))
       IN  Ascii85_EncodeFrom(s, foldSpaces_, g.iter + 1,
                              acc \o Ascii85_EncodeGroup(bitset, counter, foldSpaces_))

Ascii85_Encode(s, foldSpaces_, adobeMode_) ==
  Ok(Ascii85_EncodeFrom(s, foldSpaces_, 1,
                        IF adobeMode_ THEN << LessThan, Tilde >> ELSE << >>)
     \o (IF adobeMode_ THEN << Tilde, GreaterThan >> ELSE << >>))

Ascii85_EncodeStringToString(string_, foldSpaces_, adobeMode_) ==
  Ascii85_Encode(string_, foldSpaces_, adobeMode_)

Ascii85_EncodeByteBufferToString(byteBuffer_, foldSpaces_, adobeMode_) ==
  Ascii85_Encode(byteBuffer_, foldSpaces_, adobeMode_)

\* What reading one position outside the string gives: 0, the terminator a
\* std::string keeps after its last character, or -1, a run that a checked
\* iterator aborts.
PastEnd == {0, -1}

CharAt(s, i, ub) == IF i >= 1 /\ i <= Len(s) THEN s[i] ELSE ub

\* The forward loop of adobeMode_: encodedStringBegin, the index after "<~".
RECURSIVE Ascii85_FindBegin(_, _, _)
Ascii85_FindBegin(s, iter, ub) ==
  IF iter > Len(s) THEN [err |-> "none", at |-> 1]
  ELSE IF s[iter] = LessThan /\ iter + 1 > Len(s) /\ ub < 0
  THEN [err |-> "abort", at |-> 1]
  ELSE IF s[iter] = LessThan /\ CharAt(s, iter + 1, ub) = Tilde /\ iter + 2 # Len(s) + 1
  THEN [err |-> "none", at |-> iter + 2]
  ELSE IF IsSpace(s[iter])
  THEN IF iter + 1 = Len(s) + 1 THEN [err |-> "STRING_PARSE_ERROR", at |-> 1]
       ELSE Ascii85_FindBegin(s, iter + 1, ub)
  ELSE [err |-> "STRING_PARSE_ERROR", at |-> 1]

\* The reverse loop of adobeMode_: encodedStringEnd, the index of the '~' of
\* "~>"; iter is the index the reverse iterator points to, crend() is 0.
RECURSIVE Ascii85_FindEnd(_, _, _)
Ascii85_FindEnd(s, iter, ub) ==
  IF iter < 1 THEN [err |-> "none", at |-> Len(s) + 1]
  ELSE IF s[iter] = GreaterThan /\ iter - 1 < 1 /\ ub < 0
  THEN [err |-> "abort", at |-> 1]
  ELSE IF s[iter] = GreaterThan /\ CharAt(s, iter - 1, ub) = Tilde /\ iter - 2 # 0
  THEN [err |-> "none", at |-> iter - 1]
  ELSE IF IsSpace(s[iter])
  THEN IF iter - 1 = 0 THEN [err |-> "STRING_PARSE_ERROR", at |-> 1]
       ELSE Ascii85_FindEnd(s, iter - 1, ub)
  ELSE [err |-> "STRING_PARSE_ERROR", at |-> 1]

\* A range check that has no upper limit.
OutOfRangeBelowOnly(partialBitsetNumber) == partialBitsetNumber < FirstDigit

\* partialBitsetNumber < 33ULL or partialBitsetNumber > 117ULL
Ascii85_OutOfRange(partialBitsetNumber) ==
  partialBitsetNumber < FirstDigit \/ partialBitsetNumber > LastDigit

\* An end test that forgets the end of the string.
GroupEndsAtFive(jter, iter, end) == jter + 1 = iter + 5

\* std::next(jter, 1) == encodedStringEnd or std::next(jter, 1) == std::next(iter, 5)
Ascii85_GroupEnds(jter, iter, end) == jter + 1 = end \/ jter + 1 = iter + 5

\* The inner loop over jter (its condition tests iter): up to five digits summed
\* into bitsetNumber; white space moves iter on unless it is the last character.
RECURSIVE Ascii85_DecodeCollect(_, _, _, _, _, _, _)
Ascii85_DecodeCollect(s, end, iter, jter, counter, bitsetNumber, ub) ==
  LET stop(e, it, ct, bn) ==
        [err |-> e, iter |-> it, counter |-> ct, bitsetNumber |-> bn]
      c == CharAt(s, jter, ub)
  IN  IF iter = end THEN stop("none", iter, counter, bitsetNumber)
      ELSE IF c < 0 THEN stop("abort", iter, counter, bitsetNumber)
      ELSE IF IsSpace(c)
      THEN IF jter + 1 = end THEN stop("none", iter, counter, bitsetNumber)
           ELSE Ascii85_DecodeCollect(s, end, iter + 1, jter + 1, counter,
                                      bitsetNumber, ub)
      ELSE IF Ascii85_OutOfRange(c)
      THEN stop("STRING_PARSE_ERROR", iter, counter + 1, bitsetNumber)
      ELSE LET bn == WideAddMul(bitsetNumber, c - FirstDigit, 5 - (counter + 1))
           IN  IF Ascii85_GroupEnds(jter, iter, end)
               THEN stop("none", jter, counter + 1, bn)
               ELSE Ascii85_DecodeCollect(s, end, iter, jter + 1, counter + 1, bn, ub)

\* while(counter < 5): the missing digits count as 84.
RECURSIVE Ascii85_FillDigits(_, _)
Ascii85_FillDigits(bitsetNumber, counter) ==
  IF counter >= 5 THEN bitsetNumber
  ELSE Ascii85_FillDigits(WideAddMul(bitsetNumber, 84, 5 - (counter + 1)), counter + 1)

\* std::bitset<32>(bitsetNumber) keeps the low 32 bits; a group of
\* previousCounter digits gives the first previousCounter - 1 bytes of it.
Ascii85_Bytes(bitsetNumber, previousCounter) ==
  LET bitset == BitsOf(bitsetNumber.hi % Limb, 16) \o BitsOf(bitsetNumber.lo, 16)
  IN  [k \in 1 .. (4 - (5 - previousCounter)) |-> Field(bitset, 8 * (4 - k), 8)]

\* The main loop from iter to encodedStringEnd.  zeros is what a 'z' adds: four
\* zero bytes in DecodeStringToByteBuffer, nothing in DecodeStringToString.
RECURSIVE Ascii85_DecodeFrom(_, _, _, _, _, _, _)
Ascii85_DecodeFrom(s, end, foldSpaces_, zeros, iter, acc, ub) ==
  LET c == CharAt(s, iter, ub)
  IN  IF iter = end THEN Ok(acc)
      ELSE IF c < 0 THEN Throw("abort")
      ELSE IF IsSpace(c)
      THEN Ascii85_DecodeFrom(s, end, foldSpaces_, zeros, iter + 1, acc, ub)
      ELSE IF c = LetterY
      THEN IF foldSpaces_
           THEN Ascii85_DecodeFrom(s, end, foldSpaces_, zeros, iter + 1,
                                   acc \o << Space, Space, Space, Space >>, ub)
           ELSE Throw("STRING_PARSE_ERROR")
      ELSE IF c = LetterZ
      THEN Ascii85_DecodeFrom(s, end, foldSpaces_, zeros, iter + 1, acc \o zeros, ub)
      ELSE LET g == Ascii85_DecodeCollect(s, end, iter, iter, 0, Wide(0, 0), ub)
               bitsetNumber == Ascii85_FillDigits(g.bitsetNumber, g.counter)
           IN  IF g.err # "none" THEN Throw(g.err)
               ELSE Ascii85_DecodeFrom(s, end, foldSpaces_, zeros, g.iter + 1,
                      acc \o Ascii85_Bytes(bitsetNumber, g.counter), ub)

\* The two loops of adobeMode_, then the main loop between the two indices.
Ascii85_Decode(s, foldSpaces_, adobeMode_, zeros, ub) ==
  LET begin == IF adobeMode_ THEN Ascii85_FindBegin(s, 1, ub)
               ELSE [err |-> "none", at |-> 1]
      end == IF adobeMode_ THEN Ascii85_FindEnd(s, Len(s), ub)
             ELSE [err |-> "none", at |-> Len(s) + 1]
  IN  IF begin.err # "none" THEN Throw(begin.err)
      ELSE IF end.err # "none" THEN Throw(end.err)
      ELSE Ascii85_DecodeFrom(s, end.at, foldSpaces_, zeros, begin.at, << >>, ub)

Ascii85_DecodeStringToString(encodedString_, foldSpaces_, adobeMode_, ub) ==
  Ascii85_Decode(encodedString_, foldSpaces_, adobeMode_, << >>, ub)

Ascii85_DecodeStringToByteBuffer(encodedString_, foldSpaces_, adobeMode_, ub) ==
  ToByteBuffer(Ascii85_Decode(encodedString_, foldSpaces_, adobeMode_,
                              << 0, 0, 0, 0 >>, ub))

(***************************************************************************)
(* The state: one chain of codec calls (the codec, the configuration cfg  *)
(* of its encoders and dcfg of its decoders, the bytes src, the outcomes   *)
(* encS, encB, decS, decB of the four entry points) and two ByteBuffer     *)
(* objects a and b with the outcome of the last operation on them, and one *)
(* run of the binarytext command: its argument vector, the                *)
(* Utility::Arguments object of main and where the process is.             *)
(***************************************************************************)
VARIABLES codec, cfg, dcfg, src, encS, encB, decS, decB, a, b, outcome,
          argumentVector, arguments, process

vars == << codec, cfg, dcfg, src, encS, encB, decS, decB, a, b, outcome,
           argumentVector, arguments, process >>

codecVars == << codec, cfg, dcfg, src, encS, encB, decS, decB >>

bufVars == << a, b, outcome >>

cliVars == << argumentVector, arguments, process >>

NoCase == "none"

Config(case_, withPadding_, foldSpaces_, adobeMode_) ==
  [case |-> case_, withPadding |-> withPadding_, foldSpaces |-> foldSpaces_,
   adobeMode |-> adobeMode_]

\* The configurations an encoder accepts.
EncodeConfigs(c) ==
  CASE c = "Base16" ->
         { Config(k, TRUE, FALSE, FALSE) : k \in {"UPPERCASE", "LOWERCASE"} }
    [] c \in {"Base32", "Base32Hex", "Base64", "Base64Url"} ->
         { Config(NoCase, p, FALSE, FALSE) : p \in BOOLEAN }
    [] c = "Ascii85" ->
         { Config(NoCase, TRUE, f, m) : f \in BOOLEAN, m \in BOOLEAN }

\* The configurations a decoder accepts after an encoder ran with g: Base16
\* decodes the case it was written in, or any case (Case::MIXED, the default).
DecodeConfigs(c, g) ==
  IF c = "Base16" THEN { [g EXCEPT !.case = k] : k \in {g.case, "MIXED"} } ELSE {g}

\* Only the loops of Ascii85's adobeMode_ can read outside the string.
OutsideReads(c, g) == IF c = "Ascii85" /\ g.adobeMode THEN PastEnd ELSE {0}

\* The four entry points of the codec c; ub resolves a read outside the string.
EncodeStringToString(c, g, s) ==
  CASE c = "Base16" -> Base16_EncodeStringToString(s, g.case)
    [] c = "Base32" -> Base32_EncodeStringToString(s, g.withPadding)
    [] c = "Base32Hex" -> Base32Hex_EncodeStringToString(s, g.withPadding)
    [] c = "Base64" -> Base64_EncodeStringToString(s, g.withPadding)
    [] c = "Base64Url" -> Base64Url_EncodeStringToString(s, g.withPadding)
    [] c = "Ascii85" -> Ascii85_EncodeStringToString(s, g.foldSpaces, g.adobeMode)

EncodeByteBufferToString(c, g, s) ==
  CASE c = "Base16" -> Base16_EncodeByteBufferToString(s, g.case)
    [] c = "Base32" -> Base32_EncodeByteBufferToString(s, g.withPadding)
    [] c = "Base32Hex" -> Base32Hex_EncodeByteBufferToString(s, g.withPadding)
    [] c = "Base64" -> Base64_EncodeByteBufferToString(s, g.withPadding)
    [] c = "Base64Url" -> Base64Url_EncodeByteBufferToString(s, g.withPadding)
    [] c = "Ascii85" -> Ascii85_EncodeByteBufferToString(s, g.foldSpaces, g.adobeMode)

DecodeStringToString(c, g, s, ub) ==
  CASE c = "Base16" -> Base16_DecodeStringToString(s, g.case)
    [] c = "Base32" -> Base32_DecodeStringToString(s)
    [] c = "Base32Hex" -> Base32Hex_DecodeStringToString(s)
    [] c = "Base64" -> Base64_DecodeStringToString(s)
    [] c = "Base64Url" -> Base64Url_DecodeStringToString(s)
    [] c = "Ascii85" -> Ascii85_DecodeStringToString(s, g.foldSpaces, g.adobeMode, ub)

DecodeStringToByteBuffer(c, g, s, ub) ==
  CASE c = "Base16" -> Base16_DecodeStringToByteBuffer(s, g.case)
    [] c = "Base32" -> Base32_DecodeStringToByteBuffer(s)
    [] c = "Base32Hex" -> Base32Hex_DecodeStringToByteBuffer(s)
    [] c = "Base64" -> Base64_DecodeStringToByteBuffer(s)
    [] c = "Base64Url" -> Base64Url_DecodeStringToByteBuffer(s)
    [] c = "Ascii85" -> Ascii85_DecodeStringToByteBuffer(s, g.foldSpaces, g.adobeMode, ub)

Codecs == {"Base16", "Base32", "Base32Hex", "Base64", "Base64Url", "Ascii85"}

\* Bytes of the sequences that are enumerated in full.
SampleBytes == {0, 32, 255}

SeqsUpTo(S, n) == UNION { [1 .. k -> S] : k \in 0 .. n }

\* Byte sequences of at most MaxLen bytes: every sequence of sample bytes, and
\* every sequence of zero bytes with one byte replaced by any byte value.
Inputs ==
  SeqsUpTo(SampleBytes, MaxLen) \cup
  UNION { { [[i \in 1 .. kp[1] |-> 0] EXCEPT ![kp[2]] = v] : v \in Byte }
          : kp \in { x \in (1 .. MaxLen) \X (1 .. MaxLen) : x[2] <= x[1] } }

IsText(s) == \A i \in 1 .. Len(s) : s[i] < 128

(***************************************************************************)
(* Utility::Arguments.  A command-line argument is [name, value]: for      *)
(* "--name=value" the text up to and including "=" and the text after it,  *)
(* for a flag the whole text and "".  The object is a record of its nine   *)
(* fields; an empty string is an option that was not given.  One step of   *)
(* the parser leaves [kind, arguments]: kind is "ok", "error" (an          *)
(* Arguments::Error is thrown) or "help" (Exit(usage, 0) is called).       *)
(***************************************************************************)

\* The longest argument vector after the program name.
MaxArgs == 3

\* The task flags and the Task each of them stands for.
TaskFlags ==
  ("--encode-text" :> "ENCODE_TEXT") @@ ("--encode-binary" :> "ENCODE_BINARY")
  @@ ("--decode-text" :> "DECODE_TEXT") @@ ("--decode-binary" :> "DECODE_BINARY")

\* The arguments a vector is made of: every flag, every option with a good
\* value, the input string with an empty value, and an unknown argument.
ArgumentTokens ==
  { [name |-> n, value |-> ""] :
      n \in DOMAIN TaskFlags
            \cup {"-h", "--without-padding", "--fold-spaces", "--adobe-mode",
                  "--verbose"} }
  \cup { [name |-> "--input-string=", value |-> v] : v \in {"1", ""} }
  \cup { [name |-> "--input-file=", value |-> "in"],
         [name |-> "--output-file=", value |-> "out"],
         [name |-> "--case=", value |-> "mixed"] }
  \cup { [name |-> "--algorithm=", value |-> v] : v \in {"base32", "ascii85"} }

ProgramName == [name |-> "binarytext", value |-> ""]

\* Reset(): every field back to NONE or empty.
Arguments_Reset ==
  [task |-> "NONE", algorithm |-> "NONE", case |-> "NONE", padding |-> "NONE",
   spaceFolding |-> "NONE", adobeMode |-> "NONE",
   inputString |-> "", inputFilePath |-> "", outputFilePath |-> ""]

SetTaskKeeping(this, flag) ==
  [kind |-> "ok",
   arguments |-> IF this.task = "NONE"
                 THEN [this EXCEPT !.task = TaskFlags[flag]] ELSE this]

SetTaskOverriding(this, flag) ==
  [kind |-> "ok", arguments |-> [this EXCEPT !.task = TaskFlags[flag]]]

\* switch(_task) of a task flag: the task is set when there is none yet, and
\* the flag conflicts with any task already set.
Arguments_SetTask(this, flag) ==
  IF this.task = "NONE"
  THEN [kind |-> "ok", arguments |-> [this EXCEPT !.task = TaskFlags[flag]]]
  ELSE [kind |-> "error", arguments |-> this]

\* The body of the loop of ParseArguments for one argument.
Arguments_ParseArgument(this, argument) ==
  LET n == argument.name
      ok(x) == [kind |-> "ok", arguments |-> x]
      error == [kind |-> "error", arguments |-> this]
      algorithms == [base16 |-> "BASE_16", base32 |-> "BASE_32",
                     base32hex |-> "BASE_32_HEX", base64 |-> "BASE_64",
                     base64url |-> "BASE_64_URL", ascii85 |-> "ASCII_85"]
      cases == [lowercase |-> "LOWERCASE", mixed |-> "MIXED",
                uppercase |-> "UPPERCASE"]
      \* _field = the value; an empty value is stored and then rejected
      path(field) ==
        IF this[field] = ""
        THEN IF argument.value = "" THEN error
             ELSE ok([this EXCEPT ![field] = argument.value])
        ELSE error
  IN  CASE n \in {"-h", "--help"} -> [kind |-> "help", arguments |-> this]
        [] n \in DOMAIN TaskFlags -> Arguments_SetTask(this, n)
        [] n = "--without-padding" ->
             IF this.padding = "NONE"
             THEN ok([this EXCEPT !.padding = "DISABLE_PADDING"]) ELSE error
        [] n = "--fold-spaces" ->
             IF this.spaceFolding = "NONE"
             THEN ok([this EXCEPT !.spaceFolding = "ENABLE_SPACE_FOLDING"])
             ELSE error
        [] n = "--adobe-mode" ->
             IF this.adobeMode = "NONE"
             THEN ok([this EXCEPT !.adobeMode = "ENABLE_ADOBE_MODE"]) ELSE error
        [] n = "--input-string=" -> path("inputString")
        [] n = "--input-file=" -> path("inputFilePath")
        [] n = "--output-file=" -> path("outputFilePath")
        [] n = "--algorithm=" ->
             IF this.algorithm = "NONE" /\ argument.value \in DOMAIN algorithms
             THEN ok([this EXCEPT !.algorithm = algorithms[argument.value]])
             ELSE error
        [] n = "--case=" ->
             IF this.case = "NONE" /\ argument.value \in DOMAIN cases
             THEN ok([this EXCEPT !.case = cases[argument.value]])
             ELSE error
        [] OTHER -> error

\* The checks of ParseArguments after its loop: a task, an output path for
\* DECODE_BINARY, exactly one input, then switch(_algorithm), which fills in
\* the defaults of the algorithm and rejects the options of the others.
Arguments_Validate(this) ==
  LET ok(x) == [kind |-> "ok", arguments |-> x]
      error(x) == [kind |-> "error", arguments |-> x]
      encodes == this.task \in {"ENCODE_TEXT", "ENCODE_BINARY"}
      chosen == [this EXCEPT !.algorithm =
                   IF @ = "NONE" THEN "BASE_16" ELSE @]
      base16 ==
        LET cased == [chosen EXCEPT !.case =
                        IF @ = "NONE"
                        THEN IF encodes THEN "UPPERCASE" ELSE "MIXED" ELSE @]
        IN  IF encodes /\ chosen.case = "MIXED" THEN error(chosen)
            ELSE IF cased.padding # "NONE" \/ cased.spaceFolding # "NONE"
                    \/ cased.adobeMode # "NONE"
                 THEN error(cased) ELSE ok(cased)
      base32 ==
        LET padded == [chosen EXCEPT !.padding =
                         IF encodes /\ @ = "NONE" THEN "ENABLE_PADDING" ELSE @]
        IN  IF ~encodes /\ chosen.padding # "NONE" THEN error(chosen)
            ELSE IF padded.case # "NONE" \/ padded.spaceFolding # "NONE"
                    \/ padded.adobeMode # "NONE"
                 THEN error(padded) ELSE ok(padded)
      ascii85 ==
        LET set == [chosen EXCEPT
                      !.spaceFolding =
                         IF @ = "NONE" THEN "DISABLE_SPACE_FOLDING" ELSE @,
                      !.adobeMode =
                         IF @ = "NONE" THEN "DISABLE_ADOBE_MODE" ELSE @]
        IN  IF set.case # "NONE" \/ set.padding # "NONE"
            THEN error(set) ELSE ok(set)
  IN  IF this.task = "NONE" THEN error(this)
      ELSE IF this.task = "DECODE_BINARY" /\ this.outputFilePath = ""
      THEN error(this)
      ELSE IF this.inputString # "" /\ this.inputFilePath # "" THEN error(this)
      ELSE IF this.inputString = "" /\ this.inputFilePath = "" THEN error(this)
      ELSE CASE chosen.algorithm = "BASE_16" -> base16
             [] chosen.algorithm = "ASCII_85" -> ascii85
             [] OTHER -> base32

\* The loop of ParseArguments from argument i on: the first argument that
\* throws or exits ends it.
RECURSIVE Arguments_ParseFrom(_, _, _)
Arguments_ParseFrom(this, argumentVector_, i) ==
  IF i > Len(argumentVector_) THEN Arguments_Validate(this)
  ELSE LET step == Arguments_ParseArgument(this, argumentVector_[i])
       IN  IF step.kind = "ok"
           THEN Arguments_ParseFrom(step.arguments, argumentVector_, i + 1)
           ELSE step

\* ParseArguments(argumentVector_): Reset(), then the arguments after the
\* program name in order, then the checks; fewer than two elements is an
\* error.
Arguments_ParseArguments(argumentVector_) ==
  IF Len(argumentVector_) >= 2
  THEN Arguments_ParseFrom(Arguments_Reset, argumentVector_, 2)
  ELSE [kind |-> "error", arguments |-> Arguments_Reset]

\* Utility::Arguments arguments; nothing has been parsed and nothing has run.
IdleCli ==
  /\ argumentVector = << ProgramName >>
  /\ arguments = Arguments_Reset
  /\ process = [at |-> "none", code |-> 0, stream |-> "none"]

IdleBuffers == a = EmptyBuffer /\ b = EmptyBuffer /\ outcome = "none"

\* A byte sequence and an encoder configuration are chosen; nothing has run.
InitRoundTrip ==
  /\ codec \in Codecs
  /\ cfg \in EncodeConfigs(codec)
  /\ dcfg \in DecodeConfigs(codec, cfg)
  /\ src \in Inputs
  /\ encS = Unset /\ encB = Unset /\ decS = Unset /\ decB = Unset
  /\ IdleBuffers
  /\ IdleCli

\* src is encoded through the string surface.
DoEncodeStringToString ==
  /\ encS = Unset
  /\ encS' = EncodeStringToString(codec, cfg, src)
  /\ UNCHANGED << codec, cfg, dcfg, src, encB, decS, decB, bufVars, cliVars >>

\* src is encoded through the ByteBuffer surface.
DoEncodeByteBufferToString ==
  /\ encS # Unset
  /\ encB = Unset
  /\ encB' = EncodeByteBufferToString(codec, cfg, src)
  /\ UNCHANGED << codec, cfg, dcfg, src, encS, decS, decB, bufVars, cliVars >>

\* The text of the string surface is decoded to a string.
DoDecodeStringToString ==
  /\ encS.err = "none" /\ encB # Unset
  /\ decS = Unset
  /\ \E ub \in OutsideReads(codec, dcfg) :
       decS' = DecodeStringToString(codec, dcfg, encS.out, ub)
  /\ UNCHANGED << codec, cfg, dcfg, src, encS, encB, decB, bufVars, cliVars >>

\* The text of the ByteBuffer surface is decoded to a ByteBuffer.
DoDecodeStringToByteBuffer ==
  /\ encB.err = "none" /\ decS # Unset
  /\ decB = Unset
  /\ \E ub \in OutsideReads(codec, dcfg) :
       decB' = DecodeStringToByteBuffer(codec, dcfg, encB.out, ub)
  /\ UNCHANGED << codec, cfg, dcfg, src, encS, encB, decS, bufVars, cliVars >>

NextRoundTrip ==
  \/ DoEncodeStringToString
  \/ DoEncodeByteBufferToString
  \/ DoDecodeStringToString
  \/ DoDecodeStringToByteBuffer

SpecRoundTrip == InitRoundTrip /\ [][NextRoundTrip]_vars

(***************************************************************************)
(* A decoder is handed an arbitrary string: both surfaces decode the same  *)
(* text with the same configuration.                                       *)
(***************************************************************************)

\* The characters of the strings: digits of the alphabet, the padding or
\* shortcut characters, white space, a character outside the alphabet.
DecodeAlphabet(c) ==
  CASE c = "Base16" -> {49, 65, 97, Space, 103}
    [] c \in {"Base32", "Base32Hex"} -> {55, 65, Equals}
    [] c \in {"Base64", "Base64Url"} -> {81, 47, 95, Equals}
    [] c = "Ascii85" -> {FirstDigit, LastDigit, LetterZ, LetterY, Space}

MaxEnc(c) ==
  CASE c = "Base16" -> MaxEnc16
    [] c \in {"Base32", "Base32Hex"} -> MaxEnc32
    [] c \in {"Base64", "Base64Url"} -> MaxEnc64
    [] c = "Ascii85" -> MaxEnc85

\* The configurations of the decoders (adobeMode_ is left off here).
DecoderConfigs(c) ==
  CASE c = "Base16" ->
         { Config(k, TRUE, FALSE, FALSE) : k \in {"MIXED", "UPPERCASE", "LOWERCASE"} }
    [] c \in {"Base32", "Base32Hex", "Base64", "Base64Url"} ->
         { Config(NoCase, TRUE, FALSE, FALSE) }
    [] c = "Ascii85" -> { Config(NoCase, TRUE, f, FALSE) : f \in BOOLEAN }

InitDecode ==
  /\ codec \in Codecs
  /\ cfg \in DecoderConfigs(codec)
  /\ dcfg = cfg
  /\ src = << >>
  /\ \E e \in SeqsUpTo(DecodeAlphabet(codec), MaxEnc(codec)) :
       encS = Ok(e) /\ encB = Ok(e)
  /\ decS = Unset /\ decB = Unset
  /\ IdleBuffers
  /\ IdleCli

NextDecode ==
  \/ DoDecodeStringToString
  \/ DoDecodeStringToByteBuffer

SpecDecode == InitDecode /\ [][NextDecode]_vars

(***************************************************************************)
(* Decoding Ascii85 texts in Adobe mode: the texts are built from the      *)
(* characters of the two delimiters, a digit and a white space character.  *)
(***************************************************************************)

\* The longest text handed to the Adobe-mode decoders.
MaxAdobe == 5

AdobeAlphabet == {LessThan, Tilde, GreaterThan, FirstDigit, Space}

InitAdobe ==
  /\ codec = "Ascii85"
  /\ cfg \in { Config(NoCase, TRUE, f, TRUE) : f \in BOOLEAN }
  /\ dcfg = cfg
  /\ src = << >>
  /\ \E e \in SeqsUpTo(AdobeAlphabet, MaxAdobe) :
       encS = Ok(e) /\ encB = Ok(e)
  /\ decS = Unset /\ decB = Unset
  /\ IdleBuffers
  /\ IdleCli

SpecAdobe == InitAdobe /\ [][NextDecode]_vars

(***************************************************************************)
(* Calling the encoders with every value of their options, Case::MIXED     *)
(* included.                                                               *)
(***************************************************************************)

\* The longest input handed to the encoders here.
MaxPlain == 3

\* Every configuration an encoder can be called with.
EncoderCalls(c) ==
  IF c = "Base16"
  THEN { Config(k, TRUE, FALSE, FALSE) : k \in {"UPPERCASE", "LOWERCASE", "MIXED"} }
  ELSE EncodeConfigs(c)

InitEncode ==
  /\ codec \in Codecs
  /\ cfg \in EncoderCalls(codec)
  /\ dcfg = cfg
  /\ src \in SeqsUpTo(SampleBytes, MaxPlain)
  /\ encS = Unset /\ encB = Unset /\ decS = Unset /\ decB = Unset
  /\ IdleBuffers
  /\ IdleCli

NextEncode ==
  \/ DoEncodeStringToString
  \/ DoEncodeByteBufferToString

SpecEncode == InitEncode /\ [][NextEncode]_vars

(***************************************************************************)
(* ByteBuffer objects in use: any sequence of member calls on a, with b as *)
(* the other operand, on a platform whose GetMaximumSize() is BufMaxSize.  *)
(* outcome is [op, err]: the last call and the error that reached the      *)
(* caller ("none", a ByteBuffer::Error type, "std::bad_alloc", or "crash"  *)
(* when undefined behaviour ended the run).                                *)
(***************************************************************************)

\* Byte values of the buffers and of the files.
BufBytes == {0, 1}

Sizes == 0 .. (BufMaxSize + 1)

\* A file: whether it opens, its content, and the chunk at which reading it
\* fails (0: never).
Files ==
  { [open |-> o, content |-> c, bad |-> k] :
      o \in BOOLEAN, c \in SeqsUpTo({1}, BufMaxSize + 1), k \in 0 .. 2 }

\* The loop of ReadFromFile from chunk number chunk on; rest is what is left to
\* read, allocs counts the allocations made so far, fail is the allocation
\* that throws (0: none).
RECURSIVE ByteBuffer_ReadChunks(_, _, _, _, _, _, _)
ByteBuffer_ReadChunks(this, rest, chunk, allocs, bad, max, fail) ==
  LET readCount == Min(ChunkSize, Len(rest))
      byteBuffer == ByteBuffer_Sized(ChunkSize, max, fail = allocs + 1)
      failResize == IF fail = allocs + 2 THEN 1 ELSE IF fail = allocs + 3 THEN 2 ELSE 0
      resized == ByteBuffer_Resize([byteBuffer.buf EXCEPT
                                      !.data = SubSeq(rest, 1, readCount)
                                               \o Filled(ChunkSize - readCount, 0)],
                                   readCount, max, failResize)
      used == allocs + 1 + (IF readCount = ChunkSize THEN 0 ELSE 2)
      added == ByteBuffer_PlusAssign(this, resized.buf, max, fail = used + 1)
  IN  IF byteBuffer.err # "none" THEN Failed(this, byteBuffer.err)
      ELSE IF bad = chunk THEN Failed(EmptyBuffer, "READ_FROM_FILE_ERROR")
      ELSE IF readCount = 0 THEN Done(this)
      ELSE IF resized.err # "none" THEN Failed(this, resized.err)
      ELSE IF added.err # "none" THEN added
      ELSE IF Len(rest) < ChunkSize THEN added
      ELSE ByteBuffer_ReadChunks(added.buf, SubSeq(rest, ChunkSize + 1, Len(rest)),
                                 chunk + 1, used + 1, bad, max, fail)

\* ReadFromFile(filePath_): the buffer is emptied, then the file is read in
\* chunks of ChunkSize bytes, each appended with operator+=.
ByteBuffer_ReadFromFile(file, max, fail) ==
  IF file.open
  THEN ByteBuffer_ReadChunks(EmptyBuffer, file.content, 1, 0, file.bad, max, fail)
  ELSE Failed(EmptyBuffer, "OPEN_FILE_ERROR")

\* The sizes of the chunks WriteToFile writes: chunkAmount chunks of ChunkSize
\* bytes and one of lastChunkSize bytes when _size > ChunkSize, one chunk of
\* _size bytes otherwise.
ByteBuffer_ChunkSizes(size) ==
  IF size > ChunkSize
  THEN LET chunkAmount == size \div ChunkSize
           lastChunkSize == size - (ChunkSize * chunkAmount)
       IN  [i \in 1 .. chunkAmount |-> ChunkSize]
           \o (IF lastChunkSize > 0 THEN << lastChunkSize >> ELSE << >>)
  ELSE << size >>

\* The writes of WriteToFile from chunk i on; file is what the stream holds,
\* fail the chunk whose allocation throws, bad the chunk whose write fails
\* (0: none).
RECURSIVE ByteBuffer_WriteChunks(_, _, _, _, _, _)
ByteBuffer_WriteChunks(this, sizes, i, file, bad, fail) ==
  IF i > Len(sizes) THEN [err |-> "none", file |-> file]
  ELSE IF fail = i THEN [err |-> "ALLOCATION_ERROR", file |-> file]
  ELSE IF bad = i THEN [err |-> "WRITE_TO_FILE_ERROR", file |-> file]
  ELSE LET from == ChunkSize * (i - 1)
       IN  ByteBuffer_WriteChunks(this, sizes, i + 1,
             file \o SubSeq(this.data, from + 1, from + sizes[i]), bad, fail)

\* WriteToFile(filePath_): the outcome is [err, file], file being the content
\* of the file the stream was opened on (nothing when it was not opened).
ByteBuffer_WriteToFile(this, open, bad, fail) ==
  IF this.alloc
  THEN IF open
       THEN ByteBuffer_WriteChunks(this, ByteBuffer_ChunkSizes(this.size), 1, << >>,
                                   bad, fail)
       ELSE [err |-> "OPEN_FILE_ERROR", file |-> << >>]
  ELSE [err |-> "EMPTY_BUFFER_ERROR", file |-> << >>]

IdleCodec ==
  /\ codec = "none" /\ cfg = Config(NoCase, TRUE, FALSE, FALSE) /\ dcfg = cfg
  /\ src = << >>
  /\ encS = Unset /\ encB = Unset /\ decS = Unset /\ decB = Unset

\* ByteBuffer a; ByteBuffer b;
InitBuf ==
  /\ IdleCodec
  /\ IdleCli
  /\ a = EmptyBuffer /\ b = EmptyBuffer
  /\ outcome = [op |-> "ByteBuffer()", err |-> "none"]

Running == outcome.err # "crash"

\* What a call on a leaves: the buffer and the error of its outcome r.
Returns(name, r) ==
  /\ a' = r.buf
  /\ outcome' = [op |-> name, err |-> r.err]

\* What a call of Resize on a leaves: the outcome keeps the arguments of the
\* call, byte_ being 0 when Resize(size_) was called.
Resized(name, r, size_, byte_) ==
  /\ a' = r.buf
  /\ outcome' = [op |-> name, err |-> r.err, size_ |-> size_, byte_ |-> byte_]

\* a is constructed anew: ByteBuffer(size_)
ConstructSized ==
  /\ Running
  /\ \E n \in Sizes, fail \in BOOLEAN :
       Returns("ByteBuffer(size_)", ByteBuffer_Sized(n, BufMaxSize, fail))
  /\ UNCHANGED << b, codecVars, cliVars >>

\* ByteBuffer(vector_)
ConstructFromVector ==
  /\ Running
  /\ \E v \in SeqsUpTo(BufBytes, 2), fail \in BOOLEAN :
       Returns("ByteBuffer(vector_)", ByteBuffer_FromVector(v, BufMaxSize, fail))
  /\ UNCHANGED << b, codecVars, cliVars >>

\* ByteBuffer(b)
ConstructCopy ==
  /\ Running
  /\ \E fail \in BOOLEAN :
       Returns("ByteBuffer(const ByteBuffer&)", ByteBuffer_Copy(b, fail))
  /\ UNCHANGED << b, codecVars, cliVars >>

\* ByteBuffer(std::move(b))
ConstructMove ==
  /\ Running
  /\ a' = b
  /\ b' = EmptyBuffer
  /\ outcome' = [op |-> "ByteBuffer(ByteBuffer&&)", err |-> "none"]
  /\ UNCHANGED << codecVars, cliVars >>

DoSetAllBytes ==
  /\ Running
  /\ \E v \in BufBytes : Returns("SetAllBytes", ByteBuffer_SetAllBytes(a, v))
  /\ UNCHANGED << b, codecVars, cliVars >>

\* At(position_) = byte_
DoSetAt ==
  /\ Running
  /\ \E i \in 0 .. BufMaxSize, v \in BufBytes :
       Returns("At", ByteBuffer_SetAt(a, i, v))
  /\ UNCHANGED << b, codecVars, cliVars >>

\* Whether Resize(n) copies the previous content through a null pointer.
ReadsNull(this, n, fail) ==
  /\ ~this.alloc /\ this.size > 0
  /\ n <= BufMaxSize /\ n # this.size /\ n >= 1
  /\ fail # 1

\* What the copy of the previous content may have read: the content itself, or
\* any bytes when the pointer is null.
Seen(this, n, fail) ==
  IF ReadsNull(this, n, fail)
  THEN { [this EXCEPT !.data = junk] : junk \in [1 .. this.size -> BufBytes] }
  ELSE {this}

\* Resize(size_).  Reading through the null pointer is undefined: the run ends
\* there, or goes on with the bytes that were read.
DoResize ==
  /\ Running
  /\ \E n \in Sizes, fail \in 0 .. 2 :
       \/ \E seen \in Seen(a, n, fail) :
            Resized("Resize", ByteBuffer_Resize(seen, n, BufMaxSize, fail), n, 0)
       \/ ReadsNull(a, n, fail) /\ Resized("Resize", Failed(a, "crash"), n, 0)
  /\ UNCHANGED << b, codecVars, cliVars >>

\* Resize(size_, byte_)
DoResizeByte ==
  /\ Running
  /\ \E n \in Sizes, v \in BufBytes, fail \in 0 .. 2 :
       \/ \E seen \in Seen(a, n, fail) :
            Resized("Resize(byte_)", ByteBuffer_ResizeByte(seen, n, v, BufMaxSize, fail), n, v)
       \/ ReadsNull(a, n, fail) /\ Resized("Resize(byte_)", Failed(a, "crash"), n, v)
  /\ UNCHANGED << b, codecVars, cliVars >>

\* a.Swap(b)
DoSwap ==
  /\ Running
  /\ a' = b
  /\ b' = a
  /\ outcome' = [op |-> "Swap", err |-> "none"]
  /\ UNCHANGED << codecVars, cliVars >>

DoClear ==
  /\ Running
  /\ a' = EmptyBuffer
  /\ outcome' = [op |-> "Clear", err |-> "none"]
  /\ UNCHANGED << b, codecVars, cliVars >>

\* a = b and a = a
DoCopyAssign ==
  /\ Running
  /\ \E self \in BOOLEAN, fail \in BOOLEAN :
       Returns("operator=",
               ByteBuffer_CopyAssign(a, IF self THEN a ELSE b, self, fail))
  /\ UNCHANGED << b, codecVars, cliVars >>

\* a = std::move(b)
DoMoveAssign ==
  /\ Running
  /\ a' = b
  /\ b' = EmptyBuffer
  /\ outcome' = [op |-> "operator=(ByteBuffer&&)", err |-> "none"]
  /\ UNCHANGED << codecVars, cliVars >>

\* a += b
DoPlusAssign ==
  /\ Running
  /\ \E fail \in BOOLEAN :
       Returns("operator+=", ByteBuffer_PlusAssign(a, b, BufMaxSize, fail))
  /\ UNCHANGED << b, codecVars, cliVars >>

\* a += a
DoPlusAssignSelf ==
  /\ Running
  /\ \E fail \in BOOLEAN :
       Returns("operator+=(*this)", ByteBuffer_PlusAssign(a, a, BufMaxSize, fail))
  /\ UNCHANGED << b, codecVars, cliVars >>

\* a.ReadFromFile(filePath_)
DoReadFromFile ==
  /\ Running
  /\ \E file \in Files, fail \in 0 .. 4 :
       Returns("ReadFromFile", ByteBuffer_ReadFromFile(file, BufMaxSize, fail))
  /\ UNCHANGED << b, codecVars, cliVars >>

\* a.WriteToFile(filePath_): the outcome keeps the content of the file.
DoWriteToFile ==
  /\ Running
  /\ \E open \in BOOLEAN, bad \in 0 .. 2, fail \in 0 .. 2 :
       LET r == ByteBuffer_WriteToFile(a, open, bad, fail)
       IN  outcome' = [op |-> "WriteToFile", err |-> r.err, file |-> r.file]
  /\ UNCHANGED << a, b, codecVars, cliVars >>

\* b.ReadFromFile(filePath_) on the file that a.WriteToFile has just written.
DoReadWrittenFile ==
  /\ Running
  /\ outcome.op = "WriteToFile" /\ outcome.err = "none"
  /\ \E fail \in 0 .. 4 :
       LET r == ByteBuffer_ReadFromFile([open |-> TRUE, content |-> outcome.file,
                                         bad |-> 0], BufMaxSize, fail)
       IN  /\ b' = r.buf
           /\ outcome' = [op |-> "ReadFromFile(written)", err |-> r.err]
  /\ UNCHANGED << a, codecVars, cliVars >>

NextBuf ==
  \/ ConstructSized
  \/ ConstructFromVector
  \/ ConstructCopy
  \/ ConstructMove
  \/ DoSetAllBytes
  \/ DoSetAt
  \/ DoResize
  \/ DoResizeByte
  \/ DoSwap
  \/ DoClear
  \/ DoCopyAssign
  \/ DoMoveAssign
  \/ DoPlusAssign
  \/ DoPlusAssignSelf
  \/ DoReadFromFile
  \/ DoWriteToFile
  \/ DoReadWrittenFile

SpecBuf == InitBuf /\ [][NextBuf]_vars

(***************************************************************************)
(* The binarytext command.  main parses the argument vector, then runs the *)
(* task; process is [at, code, stream]: "exited" by Utility::Exit with a   *)
(* code and the stream of its message, "returned" from main with code 0    *)
(* and where the result went, "terminated" by std::terminate on an         *)
(* exception no handler of main catches, or "aborted" by a read outside    *)
(* the input.                                                              *)
(***************************************************************************)

\* ReadStringFromFile(filePath_): operator>> skips the leading whitespace and
\* reads up to the next whitespace; a stream that fails before its end throws.
ReadStringFromFile(file) ==
  LET RECURSIVE skip(_)
      skip(i) == IF i <= Len(file.content) /\ IsSpace(file.content[i])
                 THEN skip(i + 1) ELSE i
      RECURSIVE word(_)
      word(i) == IF i <= Len(file.content) /\ ~IsSpace(file.content[i])
                 THEN word(i + 1) ELSE i
      from == skip(1)
  IN  IF ~file.open THEN Throw("Utility::Error")
      ELSE IF file.bad # 0 THEN Throw("Utility::Error")
      ELSE Ok(SubSeq(file.content, from, word(from) - 1))

Exit(exitCode_) ==
  [at |-> "exited", code |-> exitCode_,
   stream |-> IF exitCode_ = 0 THEN "stdout" ELSE "stderr"]

\* The fields whose getter the task of main calls before the codec runs (the
\* output path is asked for after it): a getter of a field that is NONE or
\* empty throws Arguments::Error.
Main_Requested(this) ==
  {"task", "algorithm"}
  \cup (IF this.task = "ENCODE_BINARY" THEN {"inputFilePath"}
        ELSE IF this.inputString # "" THEN {"inputString"}
        ELSE {"inputFilePath"})
  \cup (CASE this.algorithm = "BASE_16" -> {"case"}
          [] this.algorithm = "ASCII_85" -> {"spaceFolding", "adobeMode"}
          [] this.algorithm = "NONE" -> {}
          [] OTHER -> IF this.task \in {"ENCODE_TEXT", "ENCODE_BINARY"}
                      THEN {"padding"} ELSE {})

\* The second try block of main and its handlers, on the parsed arguments:
\* file is the input file, out the output file, ub a read outside the input.
Main_Run(this, file, out, ub) ==
  LET c == CASE this.algorithm = "BASE_16" -> "Base16"
             [] this.algorithm = "BASE_32" -> "Base32"
             [] this.algorithm = "BASE_32_HEX" -> "Base32Hex"
             [] this.algorithm = "BASE_64" -> "Base64"
             [] this.algorithm = "BASE_64_URL" -> "Base64Url"
             [] this.algorithm = "ASCII_85" -> "Ascii85"
      g == Config(this.case, this.padding # "DISABLE_PADDING",
                  this.spaceFolding = "ENABLE_SPACE_FOLDING",
                  this.adobeMode = "ENABLE_ADOBE_MODE")
      characters == [v \in {"", "1"} |-> IF v = "1" THEN << 49 >> ELSE << >>]
      byteBuffer == ByteBuffer_ReadFromFile(file, PointerDiffMax, 0)
      string == IF this.inputString # "" THEN Ok(characters[this.inputString])
                ELSE ReadStringFromFile(file)
      input == IF this.task = "ENCODE_BINARY"
               THEN [err |-> byteBuffer.err, out |-> byteBuffer.buf.data]
               ELSE string
      result ==
        CASE this.task = "ENCODE_TEXT" -> EncodeStringToString(c, g, input.out)
          [] this.task = "ENCODE_BINARY" -> EncodeByteBufferToString(c, g, input.out)
          [] this.task = "DECODE_TEXT" -> DecodeStringToString(c, g, input.out, ub)
          [] this.task = "DECODE_BINARY" ->
               DecodeStringToByteBuffer(c, g, input.out, ub)
      \* processTextOutput(string_)
      text ==
        IF this.outputFilePath # ""
        THEN IF out.open /\ out.bad = 0
             THEN [at |-> "returned", code |-> 0, stream |-> "file"]
             ELSE Exit(-1)
        ELSE [at |-> "returned", code |-> 0, stream |-> "stdout"]
      \* processBinaryOutput(byteBuffer_)
      binary ==
        IF this.outputFilePath = ""
        THEN [at |-> "terminated", code |-> 0, stream |-> "none"]
        ELSE IF ByteBuffer_WriteToFile(StageAll(result.out, 1, StagingStart),
                                       out.open, out.bad, 0).err = "none"
        THEN [at |-> "returned", code |-> 0, stream |-> "file"]
        ELSE Exit(-1)
  IN  IF \E field \in Main_Requested(this) : this[field] \in {"NONE", ""}
      THEN [at |-> "terminated", code |-> 0, stream |-> "none"]
      ELSE IF input.err # "none" THEN Exit(-1)
      ELSE IF result.err = "abort"
      THEN [at |-> "aborted", code |-> 0, stream |-> "none"]
      ELSE IF result.err # "none" THEN Exit(-1)
      ELSE IF this.task = "DECODE_BINARY" THEN binary ELSE text

\* binarytext with at most MaxArgs arguments after the program name.
InitCli ==
  /\ IdleCodec
  /\ IdleBuffers
  /\ argumentVector \in
       { << ProgramName >> \o v : v \in SeqsUpTo(ArgumentTokens, MaxArgs) }
  /\ arguments = Arguments_Reset
  /\ process = [at |-> "started", code |-> 0, stream |-> "none"]

\* The first try block of main: arguments.ParseArguments(argumentVector),
\* which exits with 0 on a help flag, and Exit(error.What(), -1) on an
\* Arguments::Error.
DoParseArguments ==
  /\ process.at = "started"
  /\ LET r == Arguments_ParseArguments(argumentVector)
     IN  /\ arguments' = r.arguments
         /\ process' = CASE r.kind = "help" -> Exit(0)
                         [] r.kind = "error" -> Exit(-1)
                         [] OTHER -> [process EXCEPT !.at = "parsed"]
  /\ UNCHANGED << argumentVector, codecVars, bufVars >>

\* The task of main on the parsed arguments, up to return 0 or Exit.  The
\* input file opens or not, holds nothing, "1" or " 1 1", and reading it
\* fails (bad = 1) or not; the output file opens or not and writing it fails
\* or not.
DoRun ==
  /\ process.at = "parsed"
  /\ \E file \in { [open |-> o, content |-> c, bad |-> k] :
                     o \in BOOLEAN, k \in 0 .. 1,
                     c \in {<< >>, << 49 >>, << Space, 49, Space, 49 >>} },
        out \in { [open |-> o, bad |-> k] : o \in BOOLEAN, k \in 0 .. 1 },
        ub \in PastEnd :
       process' = Main_Run(arguments, file, out, ub)
  /\ UNCHANGED << argumentVector, arguments, codecVars, bufVars >>

NextCli ==
  \/ DoParseArguments
  \/ DoRun

SpecCli == InitCli /\ [][NextCli]_vars

(***************************************************************************)
(* Properties.                                                             *)
(***************************************************************************)

Parse == "STRING_PARSE_ERROR"

SizeLimit == "MAXIMUM_SIZE_LIMIT_ERROR"

Padded16To64 == {"Base16", "Base32", "Base32Hex", "Base64", "Base64Url"}

Family32 == codec \in {"Base32", "Base32Hex"}

Family64 == codec \in {"Base64", "Base64Url"}

\* C1: for Base16 (either case), Base32, Base32Hex, Base64 and Base64Url (padding
\* on or off), decoding to a ByteBuffer the text that EncodeByteBufferToString
\* gave for the bytes src returns a buffer whose content is src.
C1_RoundTripBytes ==
  (codec \in Padded16To64 /\ decB # Unset) => (decB.err = "none" /\ decB.out = src)

\* A ragged Base32 group written without padding has been decoded back.
C1_Witness ==
  /\ codec = "Base32" /\ ~cfg.withPadding
  /\ src = << 0, 255, 0 >>
  /\ encB.out = << 65, 68, 55, 81, 65 >>
  /\ decB = Ok(src)

\* C2: for Ascii85 under every combination of foldSpaces_ and adobeMode_,
\* decoding to a ByteBuffer the text that EncodeByteBufferToString gave for the
\* bytes src returns a buffer whose content is src.
C2_Ascii85RoundTripBytes ==
  (codec = "Ascii85" /\ decB # Unset) => (decB.err = "none" /\ decB.out = src)

\* C3: for every codec and encoder configuration, decoding to a string the text
\* that EncodeStringToString gave for a 7-bit text src returns exactly src.
C3_RoundTripText ==
  (IsText(src) /\ decS # Unset) => (decS.err = "none" /\ decS.out = src)

\* C4: the two surfaces agree: the encoders give the same text for the same
\* bytes, and the decoders of that text fail with the same error or return the
\* same bytes.
C4_SurfacesAgree ==
  /\ encB # Unset => encB = encS
  /\ (decS # Unset /\ decB # Unset /\ encS = encB) => decS = decB

\* C5: after any sequence of ByteBuffer operations, errors and allocation
\* failures included, the storage pointer of a buffer is non-null if and only
\* if its size is greater than 0.
C5_PointerIffSize ==
  /\ a.alloc <=> a.size > 0
  /\ b.alloc <=> b.size > 0

\* The errors of a mutation that had begun to change the buffer: a failed
\* allocation, and a file that ReadFromFile, which empties the buffer first,
\* could not open or read.
StartedThenFailed ==
  outcome.err \in {"ALLOCATION_ERROR", "std::bad_alloc",
                   "OPEN_FILE_ERROR", "READ_FROM_FILE_ERROR"}

\* C6: when a mutation of a fails after it has begun to change the buffer, a is
\* in the empty state (size 0, no storage) when the error reaches the caller.
C6_FailedMutationLeavesEmpty == StartedThenFailed => a = EmptyBuffer

\* a += b is called on two non-empty buffers whose sizes add up to more than
\* GetMaximumSize().
PlusAssignOverLimit ==
  /\ outcome'.op = "operator+="
  /\ a.alloc /\ b.alloc
  /\ a.size + b.size > BufMaxSize

\* C7 as stated: a += b on two non-empty buffers whose sizes add up to more than
\* the maximum size raises the size-limit error and leaves a empty.
C7_OverLimitEmpties ==
  [][PlusAssignOverLimit => (outcome'.err = SizeLimit /\ a' = EmptyBuffer)]_vars

\* C7, amended: a += b on two non-empty buffers whose sizes add up to more than
\* the maximum size raises the size-limit error and leaves a and b as they were.
C7_OverLimitKeeps ==
  [][PlusAssignOverLimit => (outcome'.err = SizeLimit /\ a' = a /\ b' = b)]_vars

\* a += b has raised the size-limit error and a still holds its bytes.
C7_Witness ==
  /\ outcome = [op |-> "operator+=", err |-> SizeLimit]
  /\ a.alloc /\ b.alloc
  /\ a.size + b.size > BufMaxSize
  /\ a.data = Filled(a.size, 1)

\* The string handed to the decoders.
Text == encS.out

GroupSize == IF Family32 THEN 8 ELSE 4

\* The counts of '=' that end a valid input.
ValidPadding == IF Family32 THEN {0, 1, 3, 4, 6} ELSE {0, 1, 2}

Positions(s, c) == { i \in 1 .. Len(s) : s[i] = c }

\* The number of '=' characters that end s.
TrailingEquals(s) ==
  Cardinality({ i \in 1 .. Len(s) : \A j \in i .. Len(s) : s[j] = Equals })

\* Some character after the first '=' of s is not '='.
DataAfterPadding(s) ==
  \E i \in Positions(s, Equals) : \E j \in (i + 1) .. Len(s) : s[j] # Equals

\* Both decoders, once they have run, failed with STRING_PARSE_ERROR and
\* returned nothing.
BothFailParse ==
  /\ decS # Unset => decS = Throw(Parse)
  /\ decB # Unset => decB = Throw(Parse)

\* C8: in Base32, Base32Hex, Base64 and Base64Url decode, when some character
\* after the first '=' of the input is not '=', both surfaces fail with parse.
C8_NothingAfterPadding ==
  ((Family32 \/ Family64) /\ DataAfterPadding(Text)) => BothFailParse

GroupOf(s, k) == SubSeq(s, (k - 1) * GroupSize + 1, Min(k * GroupSize, Len(s)))

GroupCount(s) == (Len(s) + GroupSize - 1) \div GroupSize

\* The groups that hold a '=' or are shorter than GroupSize.
PaddedGroups(s) ==
  { k \in 1 .. GroupCount(s) :
      Positions(GroupOf(s, k), Equals) # {} \/ Len(GroupOf(s, k)) < GroupSize }

FirstPaddedGroup(s) ==
  GroupOf(s, CHOOSE k \in PaddedGroups(s) : \A m \in PaddedGroups(s) : k <= m)

\* The '=' of a group plus the characters it lacks to be full.
PaddingOfGroup(g) == Cardinality(Positions(g, Equals)) + (GroupSize - Len(g))

C10_PaddingRequired ==
  (Family32 /\ Len(Text) % 8 # 0) => BothFailParse

\* s with the '=' that fill its last group.
WithPadding(s) == s \o [i \in 1 .. ((8 - (Len(s) % 8)) % 8) |-> Equals]

\* C10, amended: for an input without '=' whose length is not a multiple of 8,
\* Base32 and Base32Hex decode return what they return for the input with its
\* padding added when the last group has 2, 4, 5 or 7 characters, and fail with
\* parse, returning nothing, when it has 1, 3 or 6.
C10_UnpaddedTail ==
  (Family32 /\ Len(Text) % 8 # 0 /\ Positions(Text, Equals) = {}) =>
    IF Len(Text) % 8 \in {2, 4, 5, 7}
    THEN /\ decS # Unset =>
              decS = DecodeStringToString(codec, dcfg, WithPadding(Text), 0)
         /\ decB # Unset =>
              decB = DecodeStringToByteBuffer(codec, dcfg, WithPadding(Text), 0)
    ELSE BothFailParse

\* Two Base32 characters without padding have been decoded to one byte.
C10_Witness ==
  /\ codec = "Base32"
  /\ Text = << 55, 55 >>
  /\ decS = Ok(<< 255 >>) /\ decB = Ok(<< 255 >>)

\* s holds an opening "<~" with nothing but white space before it and a closing
\* "~>" with nothing but white space after it.
Framed(s) ==
  /\ \E i \in 1 .. (Len(s) - 1) :
       /\ s[i] = LessThan /\ s[i + 1] = Tilde
       /\ \A k \in 1 .. (i - 1) : IsSpace(s[k])
  /\ \E j \in 1 .. (Len(s) - 1) :
       /\ s[j] = Tilde /\ s[j + 1] = GreaterThan
       /\ \A k \in (j + 2) .. Len(s) : IsSpace(s[k])

\* C11: Ascii85 decode in Adobe mode fails with parse, on both surfaces, for
\* every input that lacks the opening "<~" after nothing but white space or the
\* closing "~>" before nothing but white space, the empty string included.
C11_AdobeFrameRequired ==
  (codec = "Ascii85" /\ dcfg.adobeMode /\ ~Framed(Text)) => BothFailParse

\* The characters of an Ascii85 encoding between the delimiters of Adobe mode.
Payload(e) == IF cfg.adobeMode THEN SubSeq(e, 3, Len(e) - 2) ELSE e

\* The full 4-byte groups of s whose bytes are all zero.
ZeroGroups(s) ==
  { k \in 1 .. (Len(s) \div 4) : \A i \in (4 * k - 3) .. (4 * k) : s[i] = 0 }

IsDigit85(c) == c >= FirstDigit /\ c <= LastDigit

\* e has one 'z' for each full zero group of src and ends, when the last group
\* of src has r < 4 bytes, with r + 1 digits.
ShortcutOnlyForFullGroups(e) ==
  /\ Cardinality(Positions(e, LetterZ)) = Cardinality(ZeroGroups(src))
  /\ Len(src) % 4 # 0 =>
       /\ Len(e) >= (Len(src) % 4) + 1
       /\ \A i \in (Len(e) - (Len(src) % 4)) .. Len(e) : IsDigit85(e[i])

\* C12: Ascii85 encode writes 'z' only for a full 4-byte group of value 0; a
\* final group of r bytes, r in 1..3, gives r + 1 digits from '!' to 'u', also
\* when all of its bytes are zero.
C12_ZOnlyForFullGroup ==
  /\ (codec = "Ascii85" /\ encS.err = "none") => ShortcutOnlyForFullGroups(Payload(encS.out))
  /\ (codec = "Ascii85" /\ encB.err = "none") => ShortcutOnlyForFullGroups(Payload(encB.out))

\* The white space characters of s that stand between two other characters.
InnerSpaces(s) ==
  { i \in 1 .. Len(s) :
      /\ IsSpace(s[i])
      /\ \E j \in 1 .. (i - 1) : ~IsSpace(s[j])
      /\ \E k \in (i + 1) .. Len(s) : ~IsSpace(s[k]) }

\* s without the characters at the positions of D.
Remove(s, D) ==
  LET keep == (1 .. Len(s)) \ D
  IN  [k \in 1 .. Cardinality(keep) |->
         s[CHOOSE i \in keep : Cardinality({ j \in keep : j <= i }) = k]]

\* Both decoders, once they have run on Text, returned what they return for e.
DecodesAs(e) ==
  /\ decS # Unset => decS = DecodeStringToString(codec, dcfg, e, 0)
  /\ decB # Unset => decB = DecodeStringToByteBuffer(codec, dcfg, e, 0)

\* e is decoded without error by both decoders.
Decodable(e) ==
  /\ DecodeStringToString(codec, dcfg, e, 0).err = "none"
  /\ DecodeStringToByteBuffer(codec, dcfg, e, 0).err = "none"

\* C13: for Base16 and Ascii85, a text made from a decodable text e by adding
\* ' ' or '\n' between two of its symbols decodes to the same value as e.
C13_InnerWhitespaceIgnored ==
  codec \in {"Base16", "Ascii85"} =>
    \A D \in SUBSET InnerSpaces(Text) :
      Decodable(Remove(Text, D)) => DecodesAs(Remove(Text, D))

\* C14: Ascii85 decode ignores ' ' and '\n' wherever they stand: a text made
\* from a decodable text e by adding white space anywhere, after the last digit
\* of a short final group included, decodes to the same bytes as e.
C14_WhitespaceIgnoredEverywhere ==
  codec = "Ascii85" =>
    \A D \in SUBSET Positions(Text, Space) :
      Decodable(Remove(Text, D)) => DecodesAs(Remove(Text, D))

\* The shortcut characters of Ascii85.
Shortcuts == {LetterZ, LetterY}

\* The digits of s after position from and before position p.
DigitsBetween(s, from, p) ==
  Cardinality({ i \in (from + 1) .. (p - 1) : IsDigit85(s[i]) })

\* The position of the last shortcut of s before position p, 0 when there is
\* none.
LastShortcutBefore(s, p) ==
  LET before == { i \in 1 .. (p - 1) : s[i] \in Shortcuts }
  IN  IF before = {} THEN 0 ELSE CHOOSE i \in before : \A j \in before : j <= i

\* A 'z' or 'y' of s stands after 1 to 4 digits of an unfinished group.
ShortcutInsideGroup(s) ==
  \E p \in 1 .. Len(s) :
    /\ s[p] \in Shortcuts
    /\ DigitsBetween(s, LastShortcutBefore(s, p), p) % 5 \in 1 .. 4

\* Every 'y' of Text is one the configuration folds spaces for.
ShortcutsEnabled == dcfg.foldSpaces \/ Positions(Text, LetterY) = {}

\* C15 as stated: in Ascii85 decode a 'z', or with space folding a 'y', after 1
\* to 4 digits of an unfinished group causes no parse error.
C15_ShortcutClosesGroup ==
  (codec = "Ascii85" /\ ShortcutInsideGroup(Text) /\ ShortcutsEnabled) =>
    /\ decS # Unset => decS.err = "none"
    /\ decB # Unset => decB.err = "none"

\* C15, amended: in Ascii85 decode a 'z' or a 'y' after 1 to 4 digits of an
\* unfinished group is refused: both surfaces fail with parse and return
\* nothing.
C15_ShortcutInsideGroupFails ==
  (codec = "Ascii85" /\ ShortcutInsideGroup(Text)) => BothFailParse

\* One digit followed by 'z' has been refused by both decoders.
C15_Witness ==
  /\ codec = "Ascii85"
  /\ Text = << FirstDigit, LetterZ >>
  /\ decS = Throw(Parse) /\ decB = Throw(Parse)

\* s without the '=' characters that end it.
StripTrailingEquals(s) == SubSeq(s, 1, Len(s) - TrailingEquals(s))

\* s with the '=' characters that fill its last group.
Reattach(s) ==
  s \o [i \in 1 .. ((GroupSize - (Len(s) % GroupSize)) % GroupSize) |-> Equals]

\* What the ByteBuffer encoder of codec returns for src with the given padding
\* option.
EncodedWith(withPadding_) ==
  EncodeByteBufferToString(codec, [cfg EXCEPT !.withPadding = withPadding_], src).out

\* C16: for Base32, Base32Hex, Base64 and Base64Url, the encoding with padding
\* on without its trailing '=' is the encoding with padding off, and both
\* decode to the input, the padding-off form also with its padding reattached.
C16_PaddingSymmetry ==
  ((Family32 \/ Family64) /\ decB # Unset) =>
    LET other == EncodedWith(~cfg.withPadding)
        on == IF cfg.withPadding THEN encB.out ELSE other
        off == IF cfg.withPadding THEN other ELSE encB.out
    IN  /\ StripTrailingEquals(on) = off
        /\ decB = Ok(src)
        /\ DecodeStringToByteBuffer(codec, dcfg, other, 0) = Ok(src)
        /\ DecodeStringToByteBuffer(codec, dcfg, Reattach(off), 0) = Ok(src)

\* One byte has been encoded by Base64 without padding to two symbols and
\* decoded back.
C16_Witness ==
  /\ codec = "Base64" /\ ~cfg.withPadding
  /\ src = << 255 >>
  /\ encB.out = << 47, 119 >>
  /\ EncodedWith(TRUE) = << 47, 119, Equals, Equals >>
  /\ decB = Ok(src)

\* The smallest number of groups of g bytes that hold n bytes.
CeilDiv(n, g) == (n + g - 1) \div g

\* The length the specification gives for the encoding of n bytes.
EncodedLength(n) ==
  CASE codec = "Base16" -> 2 * n
    [] Family32 -> 8 * CeilDiv(n, 5)
    [] Family64 -> 4 * CeilDiv(n, 3)

\* C17: the encoding of n bytes has 2n characters for Base16, 8 * ceil(n / 5)
\* for Base32 and Base32Hex with padding on, 4 * ceil(n / 3) for Base64 and
\* Base64Url with padding on, on both surfaces.
C17_EncodedLength ==
  (codec = "Base16" \/ ((Family32 \/ Family64) /\ cfg.withPadding)) =>
    /\ encS # Unset => (encS.err = "none" /\ Len(encS.out) = EncodedLength(Len(src)))
    /\ encB # Unset => (encB.err = "none" /\ Len(encB.out) = EncodedLength(Len(src)))

\* One byte has been encoded by Base32 with padding to eight characters, two
\* symbols and six '=', on both surfaces.
C17_Witness ==
  /\ codec = "Base32" /\ cfg.withPadding
  /\ src = << 255 >>
  /\ encS = encB
  /\ encB.out = << 55, 52, Equals, Equals, Equals, Equals, Equals, Equals >>

\* C18: Base16 encode called with Case::MIXED fails with invalid-case on both
\* surfaces for every input, the empty input included, and returns nothing.
C18_MixedCaseRefused ==
  (codec = "Base16" /\ cfg.case = "MIXED") =>
    /\ encS # Unset => encS = Throw("INVALID_CASE_ERROR")
    /\ encB # Unset => encB = Throw("INVALID_CASE_ERROR")

\* The step is a += b, or a += a, and it returned without an error.
PlusAssignSucceeded == outcome'.op = "operator+=" /\ outcome'.err = "none"

PlusAssignSelfSucceeded == outcome'.op = "operator+=(*this)" /\ outcome'.err = "none"

\* buf after the step holds the bytes of first followed by the bytes of second.
Concatenated(buf, first, second) ==
  /\ buf.size = first.size + second.size
  /\ buf.data = first.data \o second.data

\* C19: when a += b succeeds, a holds its old bytes followed by the bytes of b,
\* its length is n_a + n_b and b is unchanged, so that an empty a becomes a copy
\* of b and an empty b leaves a as it was; a += a gives the old contents twice.
C19_PlusAssignConcatenates ==
  [][ /\ PlusAssignSucceeded => (Concatenated(a', a, b) /\ b' = b)
      /\ PlusAssignSelfSucceeded => Concatenated(a', a, a) ]_vars

\* The step is a call of Resize(size_) or Resize(size_, byte_) on a.
ResizeCalled == outcome'.op \in {"Resize", "Resize(byte_)"}

\* a after the step has size_ bytes: the first bytes of a as they were, as many
\* as both lengths allow, and byte_ at every position added.
ResizedTo(size_, byte_) ==
  /\ a'.size = size_ /\ Len(a'.data) = size_
  /\ \A i \in 1 .. Min(a.size, size_) : i \in DOMAIN a.data /\ a'.data[i] = a.data[i]
  /\ \A i \in (a.size + 1) .. size_ : a'.data[i] = byte_
  /\ size_ = 0 => a' = EmptyBuffer
  /\ size_ = a.size => a' = a

\* C20: a Resize to n <= N_max that returns without error sets the length to n,
\* keeps the first min(old length, n) bytes and sets every added position to the
\* fill byte, 0 when none is given; Resize(0) gives the empty buffer, Resize to
\* the current length changes nothing; n > N_max raises size-limit and leaves
\* the buffer unchanged.
C20_ResizeKeepsPrefix ==
  [][ ResizeCalled =>
        /\ (outcome'.size_ <= BufMaxSize /\ outcome'.err = "none") =>
             ResizedTo(outcome'.size_, outcome'.byte_)
        /\ outcome'.size_ > BufMaxSize => (outcome'.err = SizeLimit /\ a' = a) ]_vars


\* The step is a.WriteToFile(filePath_).
WriteCalled == outcome'.op = "WriteToFile"

\* The step is b.ReadFromFile on the file a was written to, without an error.
WrittenFileRead == outcome'.op = "ReadFromFile(written)" /\ outcome'.err = "none"

\* C21: WriteToFile on a buffer of n > 0 bytes, whatever n is relative to the
\* chunk size, does not fail with empty-buffer and, when it returns, has written
\* exactly the n bytes of the buffer in order; on a buffer of 0 bytes it fails
\* with empty-buffer; ReadFromFile of the written file replaces the contents of
\* the receiver with a buffer equal to the one written.
C21_FileRoundTrip ==
  [][ /\ (WriteCalled /\ a.size = 0) => outcome'.err = "EMPTY_BUFFER_ERROR"
      /\ (WriteCalled /\ a.size > 0) =>
           /\ outcome'.err # "EMPTY_BUFFER_ERROR"
           /\ outcome'.err = "none" =>
                (Len(outcome'.file) = a.size /\ outcome'.file = a.data)
      /\ WrittenFileRead => (ByteBuffer_Equals(b', a) /\ b'.data = a.data) ]_vars


\* The bytes the ByteBuffer decoder of codec hands to its staging, in the order
\* it produces them, for the text encB.out.
Produced ==
  IF codec = "Ascii85"
  THEN Ascii85_Decode(encB.out, dcfg.foldSpaces, dcfg.adobeMode, << 0, 0, 0, 0 >>, 0)
  ELSE DecodeStringToString(codec, dcfg, encB.out, 0)

\* C24: in the ByteBuffer decoders of the six codecs the staging chunk loses,
\* duplicates and reorders nothing: the buffer returned has as many bytes as
\* were decoded and holds them in the order they were produced, whatever their
\* number is relative to the chunk capacity.
C24_StagingKeepsBytes ==
  (decB # Unset /\ decB.err = "none") =>
    /\ Len(decB.out) = Len(Produced.out)
    /\ decB.out = Produced.out

\* Five bytes, more than two staging chunks hold, have been decoded by Ascii85
\* from a 'z' and a group of two digits.
C24_Witness ==
  /\ codec = "Ascii85"
  /\ encB.out = << LetterZ, FirstDigit, FirstDigit >>
  /\ Len(decB.out) > 2 * ChunkSize
  /\ decB = Ok(<< 0, 0, 0, 0, 0 >>)


\* The characters of s that are not white space, in order.
Symbols(s) == Remove(s, { i \in 1 .. Len(s) : IsSpace(s[i]) })

\* Every symbol of s is a hex digit of the case the decoder is called with.
AllHex(s) == \A i \in 1 .. Len(s) : IsSpace(s[i]) \/ Base16_DigitValue(s[i], dcfg.case) >= 0

\* The bytes of the digits d: the pairs in order, then, when the number of
\* digits is odd, the last digit as the high half of a byte whose low half is 0.
PairedBytes(d) ==
  [k \in 1 .. ((Len(d) + 1) \div 2) |->
     IF 2 * k <= Len(d)
     THEN 16 * Base16_DigitValue(d[2 * k - 1], dcfg.case)
          + Base16_DigitValue(d[2 * k], dcfg.case)
     ELSE 16 * Base16_DigitValue(d[Len(d)], dcfg.case)]

\* C25: Base16 decode of 2m + 1 hex digits, with any white space between or
\* after them, returns m + 1 bytes, the m digit pairs in order and the last
\* digit shifted left by four bits; an even number of digits gives the pairs
\* only.  Both surfaces return these bytes.
C25_OddDigitHighNibble ==
  (codec = "Base16" /\ AllHex(Text)) =>
    LET bytes == PairedBytes(Symbols(Text))
    IN  /\ decS # Unset => decS = Ok(bytes)
        /\ decB # Unset => decB = Ok(bytes)

\* Three digits with white space between and after them have been decoded to
\* a pair and a half byte.
C25_Witness ==
  /\ codec = "Base16"
  /\ Text = << 49, Space, 65, 49, Space >>
  /\ decS = Ok(<< 26, 16 >>) /\ decB = Ok(<< 26, 16 >>)


\* What the two delimiter loops of Adobe mode give for s: the outcome of the
\* forward loop and of the reverse loop, a read of the terminator giving 0.
DelimiterScan(s) ==
  [begin |-> Ascii85_FindBegin(s, 1, 0), end |-> Ascii85_FindEnd(s, Len(s), 0)]

\* C26: in Ascii85 Adobe-mode decode, when the delimiter scan of the text ends
\* without a parse error, the payload start, the position after "<~", is not
\* after the payload end, the position of "~>"; "<~>" is refused with parse.
C26_PayloadStartNotAfterEnd ==
  (codec = "Ascii85" /\ dcfg.adobeMode /\ decS # Unset) =>
    LET scan == DelimiterScan(Text)
    IN  (scan.begin.err = "none" /\ scan.end.err = "none") =>
          scan.begin.at <= scan.end.at


\* The radix-85 value of the digits d, the first digit being the most
\* significant of five.
RECURSIVE DigitsValue(_, _, _)
DigitsValue(d, i, acc) ==
  IF i > Len(d) THEN acc
  ELSE DigitsValue(d, i + 1, WideAddMul(acc, d[i] - FirstDigit, 5 - i))

\* The value of the group of digits d, the digits it lacks counted as 84, is
\* greater than 2^32 - 1.
Overflows(d) == Ascii85_FillDigits(DigitsValue(d, 1, Wide(0, 0)), Len(d)).hi >= Limb

\* The characters of s after its last shortcut.
FinalGroup(s) == SubSeq(s, LastShortcutBefore(s, Len(s) + 1) + 1, Len(s))

\* C27: Ascii85 decode never wraps a group value: a text without white space
\* whose final group of 1 to 5 digits has, padded with 84s, a radix-85 value
\* greater than 2^32 - 1 fails with parse on both surfaces.
C27_GroupValueNeverWraps ==
  ( /\ codec = "Ascii85"
    /\ Positions(Text, Space) = {}
    /\ Len(FinalGroup(Text)) \in 1 .. 5
    /\ Overflows(FinalGroup(Text)) )
  => BothFailParse


\* What the encoders of codec return, padding on, for the bytes out.
Reencoded(out) ==
  [string |-> EncodeStringToString(codec, [cfg EXCEPT !.withPadding = TRUE], out).out,
   byteBuffer |-> EncodeByteBufferToString(codec, [cfg EXCEPT !.withPadding = TRUE], out).out]

\* C28: Base32, Base32Hex, Base64 and Base64Url decode accept only canonical
\* encodings: when a text whose length is a multiple of the group size is
\* decoded without error, encoding the result with padding on gives the text
\* again; a final group whose unused low-order bits are not zero is refused.
C28_DecodeAcceptsCanonicalOnly ==
  ((Family32 \/ Family64) /\ Len(Text) % GroupSize = 0) =>
    /\ (decS # Unset /\ decS.err = "none") => Reencoded(decS.out).string = Text
    /\ (decB # Unset /\ decB.err = "none") => Reencoded(decB.out).byteBuffer = Text


\* A pass of the outer loop of the decoder of codec with the cursor at position
\* i of s enters its inner loop.
EntersInnerLoop(s, i) ==
  CASE codec = "Base16" -> ~IsSpace(s[i])
    [] codec = "Ascii85" -> ~IsSpace(s[i]) /\ s[i] \notin Shortcuts
    [] OTHER -> TRUE

\* What the inner loop leaves when it is entered with the cursor at iter; a
\* read of Ascii85 at or past the end of s is reported as "abort".
PassFrom(s, iter) ==
  CASE codec = "Base16" -> Base16_DecodeGroup(s, dcfg.case, iter, iter, 0, 0)
    [] codec = "Base32" ->
         Base32_DecodeCollect(s, Base32DecodeMap, iter, iter, 0, 0, Zeros(40))
    [] codec = "Base32Hex" ->
         Base32_DecodeCollect(s, Base32HexDecodeMap, iter, iter, 0, 0, Zeros(40))
    [] codec = "Base64" ->
         Base64_DecodeCollect(s, Base64DecodeMap, iter, iter, 0, 0, Zeros(24))
    [] codec = "Base64Url" ->
         Base64_DecodeCollect(s, Base64UrlDecodeMap, iter, iter, 0, 0, Zeros(24))
    [] codec = "Ascii85" ->
         Ascii85_DecodeCollect(s, Len(s) + 1, iter, iter, 0, Wide(0, 0), -1)

\* The passes of the outer loop over s from the cursor position iter on: where
\* each inner loop was entered, where it left the cursor, and how it ended.
RECURSIVE Passes(_, _)
Passes(s, iter) ==
  IF iter > Len(s) THEN {}
  ELSE IF ~EntersInnerLoop(s, iter) THEN Passes(s, iter + 1)
  ELSE LET pass == PassFrom(s, iter)
       IN  {[from |-> iter, to |-> pass.iter, err |-> pass.err]}
           \cup (IF pass.err = "none" /\ pass.iter >= iter
                 THEN Passes(s, pass.iter + 1) ELSE {})

\* The outcomes of a decoder that ended by itself: a result or an Error.
Ended(r) == r.err \in {"none", Parse}

\* C30: with Adobe mode off, every decoder of the six codecs ends on every text
\* with a result or an error: every pass of the outer loop leaves the cursor at
\* the position it started from or after it and on a character of the text, so
\* that the next pass starts at least one character further, and no position
\* at or past the end of the text is read.
C30_DecodeTerminates ==
  (~dcfg.adobeMode /\ decB # Unset) =>
    /\ Ended(decS) /\ Ended(decB)
    /\ codec = "Ascii85" =>
         /\ Ended(DecodeStringToString(codec, dcfg, Text, -1))
         /\ Ended(DecodeStringToByteBuffer(codec, dcfg, Text, -1))
    /\ \A pass \in Passes(Text, 1) :
         /\ Ended(pass)
         /\ pass.to >= pass.from /\ pass.to <= Len(Text)

\* Both Ascii85 decoders have ended on a text whose last character is white
\* space, at which the inner loop stops without moving the cursor.
C30_Witness ==
  /\ codec = "Ascii85"
  /\ Text = << FirstDigit, FirstDigit, Space >>
  /\ PassFrom(Text, 1).iter = 1
  /\ decS.err = "none" /\ decB.err = "none"


\* The arguments after the program name, and the names among them.
Given == Tail(argumentVector)

Has(name) == \E i \in 1 .. Len(Given) : Given[i].name = name

Times(names) ==
  Cardinality({ i \in 1 .. Len(Given) : Given[i].name \in names })

HasHelp == Has("-h") \/ Has("--help")

\* ParseArguments has run on the argument vector.
Parsed == process.at # "started"

\* ParseArguments threw an Arguments::Error, which main turned into Exit(-1).
Rejected ==
  /\ Arguments_ParseArguments(argumentVector).kind = "error"
  /\ process = Exit(-1)

\* ParseArguments returned: main went on to the task with its arguments.
Accepted ==
  /\ Arguments_ParseArguments(argumentVector).kind = "ok"
  /\ arguments = Arguments_ParseArguments(argumentVector).arguments
  /\ process.at # "started"

\* The usage was printed and the process exited with 0.
HelpExit ==
  /\ Arguments_ParseArguments(argumentVector).kind = "help"
  /\ process = Exit(0)

EncodeTask == Has("--encode-text") \/ Has("--encode-binary")

DecodeTask == Has("--decode-text") \/ Has("--decode-binary")

\* The algorithm the vector names, base16 when it names none.
AlgorithmGiven ==
  IF Has("--algorithm=")
  THEN (CHOOSE t \in { Given[i] : i \in 1 .. Len(Given) } :
          t.name = "--algorithm=").value
  ELSE "base16"

\* The argument vector has one of the listed faults.
Faulty ==
  \/ Times(DOMAIN TaskFlags) >= 2
  \/ \E name \in {"--input-string=", "--input-file=", "--output-file=",
                  "--algorithm=", "--case=", "--without-padding",
                  "--fold-spaces", "--adobe-mode"} : Times({name}) >= 2
  \/ \E i \in 1 .. Len(Given) :
       /\ Given[i].name \in {"--input-string=", "--input-file=",
                             "--output-file=", "--algorithm=", "--case="}
       /\ Given[i].value = ""
  \/ Has("--without-padding") /\ DecodeTask
  \/ EncodeTask /\ \E i \in 1 .. Len(Given) :
                     Given[i].name = "--case=" /\ Given[i].value = "mixed"
  \/ Has("--case=") /\ AlgorithmGiven # "base16"
  \/ Has("--without-padding")
       /\ AlgorithmGiven \notin {"base32", "base32hex", "base64", "base64url"}
  \/ (Has("--fold-spaces") \/ Has("--adobe-mode")) /\ AlgorithmGiven # "ascii85"
  \/ Has("--input-string=") = Has("--input-file=")
  \/ Has("--decode-binary") /\ ~Has("--output-file=")

\* C22 as stated: ParseArguments rejects with an Arguments error every
\* argument vector that has a repeated or second task flag, a repeated option
\* or switch or an empty option value, --without-padding with a decode task,
\* --case=mixed with an encode task, an option of another algorithm, both or
\* neither of the inputs, or --decode-binary without an output file.
C22_FaultyRejected == (Parsed /\ Faulty) => Rejected

\* C22: ParseArguments rejects every such argument vector that holds neither
\* -h nor --help; one that holds a help flag is rejected or, when the help
\* flag is reached before the fault is, answered with the usage and exit 0.
C22_FaultyRejectedBarringHelp ==
  (Parsed /\ Faulty) => IF HasHelp THEN Rejected \/ HelpExit ELSE Rejected

\* --case=mixed with --encode-text, under base16 by default, has been
\* rejected.
C22_Witness ==
  /\ argumentVector =
       << ProgramName, [name |-> "--input-string=", value |-> "1"],
          [name |-> "--case=", value |-> "mixed"],
          [name |-> "--encode-text", value |-> ""] >>
  /\ Faulty /\ ~HasHelp /\ Rejected
  /\ arguments.case = "MIXED" /\ arguments.algorithm = "BASE_16"


\* C23: every run ends with exit code 0 after a successful run or the usage,
\* or in Utility::Exit with a non-zero code and a message on stderr; main asks
\* the accepted arguments for no field that was not given, and no exception
\* leaves main uncaught.
C23_EndsByReturnOrExit ==
  /\ Accepted =>
       /\ \A field \in Main_Requested(arguments) :
            arguments[field] \notin {"NONE", ""}
       /\ arguments.task = "DECODE_BINARY" => arguments.outputFilePath # ""
  /\ process.at \notin {"started", "parsed"} =>
       \/ process.at = "returned" /\ process.code = 0 /\ Accepted
       \/ HelpExit
       \/ process.at = "exited" /\ process.code # 0 /\ process.stream = "stderr"


\* The argument vector with the arguments after the program name in the
\* order p, a permutation of their positions.
Reordered(p) ==
  << argumentVector[1] >> \o [i \in 1 .. Len(Given) |-> Given[p[i]]]

\* C29: without -h and --help the outcome of ParseArguments does not depend on
\* the order of the arguments after the program name: when the vector is
\* accepted every permutation of it is accepted with the same nine fields,
\* and when it is rejected every permutation of it is rejected.
C29_OrderIndependent ==
  (Parsed /\ ~HasHelp) =>
    /\ Accepted \/ Rejected
    /\ \A p \in Permutations(1 .. Len(Given)) :
         LET r == Arguments_ParseArguments(Reordered(p))
         IN  IF Accepted THEN r.kind = "ok" /\ r.arguments = arguments
             ELSE r.kind = "error"

\* A base32 encoding of a string, asked for with the task last, has been
\* accepted with the padding switched on by default.
C29_Witness ==
  /\ argumentVector =
       << ProgramName, [name |-> "--input-string=", value |-> "1"],
          [name |-> "--algorithm=", value |-> "base32"],
          [name |-> "--encode-text", value |-> ""] >>
  /\ ~HasHelp /\ Accepted
  /\ arguments.task = "ENCODE_TEXT" /\ arguments.algorithm = "BASE_32"
  /\ arguments.padding = "ENABLE_PADDING" /\ arguments.inputString = "1"

=============================================================================
